---- MODULE Spec2Model ----
(***************************************************************************)
(* A model of the wahl-chat backend: the LLM fail-over router of           *)
(* src/llms.py and the per-turn orchestration of src/websocket_app.py.     *)
(*                                                                         *)
(*   SpecRouter  the router, single-shot and streaming requests, over      *)
(*               pools that vary in priority and back_up_only              *)
(*   SpecStream  the streaming router over pools that vary in sizes,       *)
(*               priority and premium_only                                 *)
(*   Spec        one chat_answer_request turn of a connection              *)
(*   SpecCache   a turn next to a provider task of another turn that uses  *)
(*               the same cache key                                        *)
(*   SpecSession a connection: chat_session_init, chat_answer_request      *)
(*               turns one after the other, disconnect                     *)
(*   SpecTargets the target list of a classification                       *)
(*   SpecFingerprint  the hash key of two chat histories                   *)
(*   SpecRerank  retrieval followed by the LLM re-ranking                  *)
(*   SpecContext the context strings of get_rag_context and                *)
(*               get_rag_comparison_context                                *)
(*   SpecOverlap a turn next to a second chat_answer_request of the same   *)
(*               session                                                   *)
(***************************************************************************)
EXTENDS Integers, Sequences, FiniteSets, TLC

(***************************************************************************)
(* Bounds of the model.                                                    *)
(***************************************************************************)
\* number of backends in a router pool (SpecRouter)
PoolSize == 3
\* number of backends in a pool of SpecStream
StreamPoolSize == 2
\* priorities are drawn from 1..MaxPriority (ties happen)
MaxPriority == 2
\* router requests served one after the other on the same process-wide flags
MaxRequests == 2
\* message chunks a backend stream yields at most
MaxStreamChunks == 2

(***************************************************************************)
(* src/models/general.py                                                   *)
(***************************************************************************)
LLMSize == {"small", "large"}

\* the static fields of class LLM; the model field `model` is the backend
\* itself and is identified with the position of the descriptor in the pool
LLM == [sizes : SUBSET LLMSize, priority : 1..MaxPriority,
        premium_only : BOOLEAN, back_up_only : BOOLEAN]

VARIABLES
  \* ---- router (src/llms.py) ----
  pool,             \* the list of LLM descriptors a request is given
  is_at_rate_limit, \* LLM.is_at_rate_limit of every backend of the pool
  rpc,              \* position of the router call
  req,              \* the parameters of the running router call
  llms,             \* the local list `llms` after sorting and filtering
  back_up_llms,     \* the local list `back_up_llms`
  idx,              \* position of the running for loop in its list
  attempts,         \* the backend invocations of the call, in order
  signals,          \* awrite_llm_status(is_at_rate_limit=True) calls of the call
  result,           \* what the call returned or raised
  flags0,           \* is_at_rate_limit when the call started
  nreq,             \* router calls finished so far
  \* ---- one turn of chat_answer_request (src/websocket_app.py) ----
  tpc,              \* position of the handler chat_answer_request
  body,             \* the inbound chat_answer_request payload
  chat_session,     \* the GroupChatSession of the connection
  cls,              \* party_id_list, is_comparing_question, is_beginning_of_chat
  todo,             \* parties whose coroutine has yet to be created
  tasks,            \* the fetch_and_emit_party_response task of every provider
  pre,              \* the process_party task of every compared provider
  relevant_doc_dict,       \* keys of the shared evidence map of the pre-pass
  improved_rag_query_list, \* the shared list of rewritten queries of the pre-pass
  lock,             \* the asyncio.Lock of the pre-pass: "free" or its holder
  events,           \* per provider: the events emitted for it, in order
  turn_events,      \* the turn-level events emitted, in order
  cache,            \* per provider: the cached answers under the turn's key
  concurrent,       \* a provider task of another turn that uses the same key
  \* ---- the connection (src/websocket_app.py) ----
  chat_sessions,    \* session["chat_sessions"], but for the object chat_session
  held_id,          \* the key under which the object chat_session is registered
  conn_events,      \* the chat_session_initialized events emitted, in order
  inbound,          \* inbound events handled so far
  \* ---- a call of a function of the retrieval and classification code ----
  args,             \* the arguments of the call
  ret               \* what the call returned or raised

routerVars == <<pool, is_at_rate_limit, rpc, req, llms, back_up_llms, idx,
                attempts, signals, result, flags0, nreq>>

connVars == <<chat_sessions, held_id, conn_events, inbound>>

fnVars == <<args, ret>>

turnVars == <<tpc, body, chat_session, cls, todo, tasks, pre, relevant_doc_dict,
              improved_rag_query_list, lock, events, turn_events, cache, concurrent,
              connVars, fnVars>>

vars == <<routerVars, turnVars>>

(***************************************************************************)
(* Helpers of the router.                                                  *)
(***************************************************************************)
Range(s) == {s[i] : i \in DOMAIN s}

Indices(p) == [i \in 1..Len(p) |-> i]

InsertByPriorityAsc(p, s, x) ==
  LET before == SelectSeq(s, LAMBDA y : p[y].priority <= p[x].priority)
      after  == SelectSeq(s, LAMBDA y : p[y].priority > p[x].priority)
  IN  before \o <<x>> \o after

\* insert x behind every element whose priority is >= the priority of x
InsertByPriority(p, s, x) ==
  LET before == SelectSeq(s, LAMBDA y : p[y].priority >= p[x].priority)
      after  == SelectSeq(s, LAMBDA y : p[y].priority < p[x].priority)
  IN  before \o <<x>> \o after

RECURSIVE sorted_ascending(_, _)
sorted_ascending(p, s) ==
  IF s = <<>> THEN <<>>
  ELSE InsertByPriorityAsc(p, sorted_ascending(p, SubSeq(s, 1, Len(s) - 1)), s[Len(s)])

RECURSIVE sorted_stable(_, _)
sorted_stable(p, s) ==
  IF s = <<>> THEN <<>>
  ELSE InsertByPriority(p, sorted_stable(p, SubSeq(s, 1, Len(s) - 1)), s[Len(s)])

\* sorted(llms, key=lambda x: x.priority, reverse=True): stable, descending
sorted_by_priority(p, s) == sorted_stable(p, s)

\* llms.py:165  [llm for llm in llms if llm.back_up_only]
backup_of(p, s) == SelectSeq(s, LAMBDA i : p[i].back_up_only)

\* a router that leaves out the backends flagged as rate-limited
unflagged_only(p, s) == SelectSeq(s, LAMBDA i : ~p[i].back_up_only /\ ~is_at_rate_limit[i])

\* llms.py:166  [llm for llm in llms if not llm.back_up_only]
primary_of(p, s) == SelectSeq(s, LAMBDA i : ~p[i].back_up_only)

OtherSize(size) == IF size = "large" THEN "small" ELSE "large"

spillover_first(p, size, premium) ==
  LET eligible == SelectSeq(Indices(p), LAMBDA i : premium \/ ~p[i].premium_only)
      pref     == SelectSeq(eligible, LAMBDA i : size \in p[i].sizes)
      spill    == SelectSeq(eligible, LAMBDA i : OtherSize(size) \in p[i].sizes
                                              /\ size \notin p[i].sizes)
  IN  sorted_by_priority(p, spill) \o sorted_by_priority(p, pref)

premium_not_excluded(p, size, premium) ==
  LET eligible == Indices(p)
      pref     == SelectSeq(eligible, LAMBDA i : size \in p[i].sizes)
      spill    == SelectSeq(eligible, LAMBDA i : OtherSize(size) \in p[i].sizes
                                              /\ size \notin p[i].sizes)
  IN  sorted_by_priority(p, pref) \o sorted_by_priority(p, spill)

\* llms.py:233-254  the candidate list of stream_answer_from_llms
stream_candidates(p, size, premium) ==
  LET eligible == IF ~premium
                  THEN SelectSeq(Indices(p), LAMBDA i : ~p[i].premium_only)
                  ELSE Indices(p)
      pref     == SelectSeq(eligible, LAMBDA i : size \in p[i].sizes)
      spill    == SelectSeq(eligible, LAMBDA i : OtherSize(size) \in p[i].sizes
                                              /\ size \notin p[i].sizes)
  IN  sorted_by_priority(p, pref) \o sorted_by_priority(p, spill)

flag_left_alone(flags, llm, ok) == flags

flag_always_cleared(flags, llm, ok) == [flags EXCEPT ![llm] = FALSE]

\* llms.py:171/175  llm.is_at_rate_limit = False on success, True on exception
set_rate_limit_flag(flags, llm, ok) == [flags EXCEPT ![llm] = ~ok]

NoResult == [kind |-> "pending", llm |-> 0]

IdleReq == [mode |-> "idle", size |-> "none", premium |-> FALSE]

(***************************************************************************)
(* get_answer_from_llms / get_structured_output_from_llms (llms.py:161-223)*)
(* The two functions have the same control flow; mode tells them apart.    *)
(***************************************************************************)
\* llms.py:164-166, 195-197: sort, split off the back-up tier
StartSingle(mode) ==
  /\ rpc = "idle"
  /\ nreq < MaxRequests
  /\ req' = [mode |-> mode, size |-> "none", premium |-> FALSE]
  /\ LET sorted == sorted_by_priority(pool, Indices(pool))
     IN  /\ back_up_llms' = backup_of(pool, sorted)
         /\ llms' = primary_of(pool, sorted)
  /\ idx' = 1
  /\ attempts' = <<>>
  /\ signals' = 0
  /\ result' = NoResult
  /\ flags0' = is_at_rate_limit
  /\ rpc' = "primary"
  /\ UNCHANGED turnVars
  /\ UNCHANGED <<pool, is_at_rate_limit, nreq>>

\* llms.py:167-176, 198-209: one pass of the loop over the primary tier
PrimaryAttempt ==
  /\ rpc = "primary"
  /\ idx <= Len(llms)
  /\ \E ok \in BOOLEAN :
       /\ attempts' = Append(attempts, [llm |-> llms[idx], ok |-> ok, tier |-> "primary"])
       /\ is_at_rate_limit' = set_rate_limit_flag(is_at_rate_limit, llms[idx], ok)
       /\ IF ok
          THEN /\ rpc' = "returned"
               /\ result' = [kind |-> "response", llm |-> llms[idx]]
               /\ idx' = idx
          ELSE /\ rpc' = "primary"
               /\ result' = result
               /\ idx' = idx + 1
  /\ UNCHANGED turnVars
  /\ UNCHANGED <<pool, req, llms, back_up_llms, signals, flags0, nreq>>

\* llms.py:178, 211 and 157-158 with firebase_service.py:72-74: the status
\* write is awaited outside any try; when it raises, the call ends with that
\* exception.  With no back-up backend the second loop is empty and the
\* raise of line 189/223 follows at once.
handle_rate_limit_hit_for_all_llms ==
  /\ rpc = "primary"
  /\ idx > Len(llms)
  /\ signals' = signals + 1
  /\ \E written \in BOOLEAN :
       IF ~written
       THEN /\ rpc' = "raised"
            /\ result' = [kind |-> "status_error", llm |-> 0]
            /\ idx' = idx
       ELSE IF Len(back_up_llms) = 0
       THEN /\ rpc' = "raised"
            /\ result' = [kind |-> "exhausted", llm |-> 0]
            /\ idx' = idx
       ELSE /\ rpc' = "backup"
            /\ result' = result
            /\ idx' = 1
  /\ UNCHANGED turnVars
  /\ UNCHANGED <<pool, is_at_rate_limit, req, llms, back_up_llms, attempts, flags0, nreq>>

\* llms.py:180-189, 213-223: one pass of the loop over the back-up tier; the
\* raise follows the last failure without a suspension point
BackupAttempt ==
  /\ rpc = "backup"
  /\ idx <= Len(back_up_llms)
  /\ \E ok \in BOOLEAN :
       /\ attempts' = Append(attempts, [llm |-> back_up_llms[idx], ok |-> ok, tier |-> "backup"])
       /\ is_at_rate_limit' = set_rate_limit_flag(is_at_rate_limit, back_up_llms[idx], ok)
       /\ IF ok
          THEN /\ rpc' = "returned"
               /\ result' = [kind |-> "response", llm |-> back_up_llms[idx]]
               /\ idx' = idx
          ELSE IF idx = Len(back_up_llms)
          THEN /\ rpc' = "raised"
               /\ result' = [kind |-> "exhausted", llm |-> 0]
               /\ idx' = idx + 1
          ELSE /\ rpc' = "backup"
               /\ result' = result
               /\ idx' = idx + 1
  /\ UNCHANGED turnVars
  /\ UNCHANGED <<pool, req, llms, back_up_llms, signals, flags0, nreq>>

(***************************************************************************)
(* stream_answer_from_llms (llms.py:226-268)                               *)
(***************************************************************************)
\* the invocations of a loop over list s in which the first k candidates
\* raise and candidate k+1, if there is one, answers
AttemptLog(s, k, tier) ==
  [j \in 1..(IF k < Len(s) THEN k + 1 ELSE k) |->
     [llm |-> s[j], ok |-> (j = k + 1), tier |-> tier]]

RECURSIVE ApplyAttempts(_, _)
ApplyAttempts(flags, log) ==
  IF log = <<>> THEN flags
  ELSE set_rate_limit_flag(ApplyAttempts(flags, SubSeq(log, 1, Len(log) - 1)),
                           log[Len(log)].llm, log[Len(log)].ok)

\* llms.py:232-266: the selection and the loop hold no suspension point, so
\* they run as one step: the first k candidates raise on astream()
stream_answer_from_llms(size, premium) ==
  /\ rpc = "idle"
  /\ nreq < MaxRequests
  /\ req' = [mode |-> "stream", size |-> size, premium |-> premium]
  /\ LET cands == stream_candidates(pool, size, premium)
     IN  /\ llms' = cands
         /\ \E k \in 0..Len(cands) :
              LET log == AttemptLog(cands, k, "stream")
              IN  /\ attempts' = log
                  /\ is_at_rate_limit' = ApplyAttempts(is_at_rate_limit, log)
                  /\ IF k < Len(cands)
                     THEN /\ rpc' = "returned"
                          /\ result' = [kind |-> "stream", llm |-> cands[k + 1]]
                     ELSE /\ rpc' = "stream_signal"
                          /\ result' = NoResult
                  /\ idx' = k + 1
  /\ back_up_llms' = <<>>
  /\ signals' = 0
  /\ flags0' = is_at_rate_limit
  /\ UNCHANGED turnVars
  /\ UNCHANGED <<pool, nreq>>

\* llms.py:268  return await handle_rate_limit_hit_for_all_llms(): the value
\* of the status write, None, is returned; when the write raises, that
\* exception ends the call
StreamAllFailed ==
  /\ rpc = "stream_signal"
  /\ signals' = signals + 1
  /\ \E written \in BOOLEAN :
       IF written
       THEN /\ rpc' = "returned"
            /\ result' = [kind |-> "none", llm |-> 0]
       ELSE /\ rpc' = "raised"
            /\ result' = [kind |-> "status_error", llm |-> 0]
  /\ UNCHANGED turnVars
  /\ UNCHANGED <<pool, is_at_rate_limit, req, llms, back_up_llms, idx, attempts, flags0, nreq>>

\* the caller takes the result; the process-wide flags stay for the next call
RouterCallEnds ==
  /\ rpc \in {"returned", "raised"}
  /\ rpc' = "idle"
  /\ nreq' = nreq + 1
  /\ req' = IdleReq
  /\ llms' = <<>>
  /\ back_up_llms' = <<>>
  /\ idx' = 0
  /\ attempts' = <<>>
  /\ signals' = 0
  /\ result' = NoResult
  /\ flags0' = is_at_rate_limit
  /\ UNCHANGED turnVars
  /\ UNCHANGED <<pool, is_at_rate_limit>>


(***************************************************************************)
(* The turn: chat_answer_request and the provider tasks it fans out        *)
(* (src/websocket_app.py).  A step is the code between two suspension      *)
(* points of one coroutine; an emit is recorded in the step that reaches   *)
(* it.                                                                     *)
(***************************************************************************)
\* websocket_app.py:76
MAX_RESPONSE_CHUNK_LENGTH == 10

\* websocket_app.py:835  len(party_id_list) > 7
MaxAutoSelectedParties == 7

\* websocket_app.py:390  cached_answer_limit
cached_answer_limit == 1

\* party.py:29  WAHL_CHAT_PARTY.party_id
WAHL_CHAT_PARTY == "wahl-chat"

\* the provider directory aget_parties() returns
all_parties == <<"p1", "p2">>

ProviderIds == Range(all_parties) \cup {WAHL_CHAT_PARTY}

\* structured_outputs.py:28-41  PartyID: the thirteen ids the classifier can
\* return, the neutral provider among them; the enumeration is fixed in the
\* code, the directory is read from the store, and "p3" to "p12" are ids of
\* the enumeration that the directory lacks
PartyID ==
  ProviderIds \cup {"p3", "p4", "p5", "p6", "p7", "p8", "p9", "p10", "p11", "p12"}

\* the ids the classifier returns in the model of a turn
TurnPartyIDs == ProviderIds \cup {"p3"}

\* texts: two user messages, a cached answer and a stream chunk that holds a
\* citation; both are longer than MAX_RESPONSE_CHUNK_LENGTH
Q1 == <<"q">>

Q2 == <<"r">>

LongText == [i \in 1..(MAX_RESPONSE_CHUNK_LENGTH + 2) |-> "a"]

CitedText == <<"[", "i", "d", "1", "]">> \o [i \in 1..(MAX_RESPONSE_CHUNK_LENGTH - 3) |-> "b"]

ChunkContents == {<<>>, CitedText}

\* chat.py:17-35  Message
UserMessage(c) == [role |-> "user", content |-> c, party_id |-> "none"]

AssistantMessage(p, c) == [role |-> "assistant", content |-> c, party_id |-> p]

\* dtos.py  SourcesDto, PartyResponseChunkDto, PartyResponseCompleteDto
SourcesDto ==
  [type |-> "sources_ready", chunk_index |-> -1, content |-> <<>>,
   is_end |-> FALSE, status |-> "none", text |-> "none"]

PartyResponseChunkDto(i, c, e) ==
  [type |-> "party_response_chunk_ready", chunk_index |-> i, content |-> c,
   is_end |-> e, status |-> "none", text |-> "none"]

PartyResponseCompleteDto(status, text, c) ==
  [type |-> "party_response_complete", chunk_index |-> -1, content |-> c,
   is_end |-> FALSE, status |-> status, text |-> text]

\* dtos.py  RespondingPartiesDto, QuickRepliesAndTitleDto, ChatResponseCompleteDto
RespondingPartiesDto(sid, ids) ==
  [type |-> "responding_parties_selected", session_id |-> sid, party_ids |-> ids, status |-> "none"]

QuickRepliesAndTitleDto(sid) ==
  [type |-> "quick_replies_and_title_ready", session_id |-> sid, party_ids |-> {}, status |-> "none"]

ChatResponseCompleteDto(sid, status) ==
  [type |-> "chat_response_complete", session_id |-> sid, party_ids |-> {}, status |-> status]

\* utils.py:148-160  sanitize_references: inside every [...] only digits,
\* commas and blanks are kept
CitationChars == {"0", "1", "2", "3", "4", "5", "6", "7", "8", "9", ",", " "}

FirstIndex(text, ch, from) ==
  IF \E i \in from..Len(text) : text[i] = ch
  THEN CHOOSE i \in from..Len(text) :
         text[i] = ch /\ \A j \in from..(i - 1) : text[j] # ch
  ELSE 0

RECURSIVE sanitize_references(_)
sanitize_references(text) ==
  LET i == FirstIndex(text, "[", 1)
      j == IF i = 0 THEN 0 ELSE FirstIndex(text, "]", i + 1)
  IN  IF i = 0 \/ j = 0 THEN text
      ELSE SubSeq(text, 1, i)
           \o SelectSeq(SubSeq(text, i + 1, j - 1), LAMBDA ch : ch \in CitationChars)
           \o <<"]">>
           \o sanitize_references(SubSeq(text, j + 1, Len(text)))

\* websocket_app.py:289-301, 532-547: the chunk events of one text, cut
\* every MAX_RESPONSE_CHUNK_LENGTH characters, numbered from first
NumSlices(text) == (Len(text) + MAX_RESPONSE_CHUNK_LENGTH - 1) \div MAX_RESPONSE_CHUNK_LENGTH

Slice(text, k) ==
  SubSeq(text, (k - 1) * MAX_RESPONSE_CHUNK_LENGTH + 1,
         IF k * MAX_RESPONSE_CHUNK_LENGTH < Len(text)
         THEN k * MAX_RESPONSE_CHUNK_LENGTH ELSE Len(text))

chunk_events(text, first) ==
  [k \in 1..NumSlices(text) |-> PartyResponseChunkDto(first + k - 1, Slice(text, k), FALSE)]

\* the decimal digits of a natural number, as str() gives them
RECURSIVE decimal(_)
decimal(n) ==
  IF n < 10 THEN <<(<<"0", "1", "2", "3", "4", "5", "6", "7", "8", "9">>)[n + 1]>>
  ELSE decimal(n \div 10) \o decimal(n % 10)

\* utils.py:84-95: the sender of a message is "Nutzer" for the user, the
\* name of the party of the directory that sent it, and the name of the
\* neutral assistant for every other party_id (a name is one element of a
\* text, and the name of a party is its id)
sender_of(message) ==
  IF message.role = "user" THEN "Nutzer"
  ELSE IF message.party_id \in Range(all_parties) THEN message.party_id
  ELSE WAHL_CHAT_PARTY

\* utils.py:96  f'{i + 1}. {sender}: "{message.content}"\n'
history_line(i, message) ==
  decimal(i) \o <<".", " ", sender_of(message), ":", " ", "\"">>
    \o message.content \o <<"\"", "\n">>

\* utils.py:77-97  build_chat_history_string: the lines of the messages,
\* one after the other
RECURSIVE build_chat_history_string(_)
build_chat_history_string(chat_history) ==
  IF chat_history = <<>> THEN <<>>
  ELSE build_chat_history_string(SubSeq(chat_history, 1, Len(chat_history) - 1))
         \o history_line(Len(chat_history), chat_history[Len(chat_history)])

\* websocket_app.py:362  cache_key: Optional[str] = None
NoneKey == [kind |-> "None", text |-> <<>>, history |-> <<>>]

\* utils.py:176-177  get_chat_history_hash_key: the xxh64 digest of the
\* history string, told apart from a literal text
get_chat_history_hash_key(conversation_history_str) ==
  [kind |-> "xxh64", text |-> <<>>, history |-> conversation_history_str]

\* websocket_app.py:364-379: the cache key of a provider task
cache_key_of(is_proposed_question, is_cacheable_chat, question_for_party, chat_history) ==
  IF is_proposed_question
  THEN [kind |-> "text", text |-> question_for_party, history |-> <<>>]
  ELSE IF is_cacheable_chat
  THEN get_chat_history_hash_key(build_chat_history_string(chat_history))
  ELSE NoneKey

\* found is the number of cached answers the lookup returned, -1 before it
NoTask ==
  [pc |-> "none", cache_key |-> NoneKey, is_proposed_question |-> FALSE,
   is_cacheable_chat |-> FALSE, found |-> -1, replay |-> FALSE, comparing |-> FALSE,
   chunk_index |-> 0, fetched |-> 0, full_response |-> <<>>, raised |-> "none"]

NoCls ==
  [party_id_list |-> {}, general_question |-> <<>>, is_comparing_question |-> FALSE,
   is_beginning_of_chat |-> FALSE, raised |-> "none"]

\* dtos.py:162  max_length=500
MaxUserMessageLength == 500

\* a user message of MaxUserMessageLength + 1 characters
TooLongMessage == [i \in 1..(MaxUserMessageLength + 1) |-> "x"]

\* dtos.py:158-166: the fields without a default
RequiredFields == {"session_id", "user_message", "party_ids"}

\* dtos.py:173  value.strip() is empty
BlankSessionIds == {"", " "}

\* payloads of chat_answer_request: the well-formed ones, one that lacks
\* party_ids, one whose text is too long, and two whose session id is blank
Bodies ==
  [present : {RequiredFields}, session_id : {"s1", "s9"}, user_message : {Q1, Q2}]
  \cup {[present |-> RequiredFields \ {"party_ids"}, session_id |-> "s1", user_message |-> Q1],
        [present |-> RequiredFields, session_id |-> "s1", user_message |-> TooLongMessage]}
  \cup [present : {RequiredFields}, session_id : BlankSessionIds, user_message : {Q1}]

\* dtos.py:157-175  ChatUserMessageDto(**body).  The fields are validated in
\* the order of their declaration.  The validator of session_id runs
\* raise ValidationError("..."): pydantic's ValidationError has no
\* constructor, so the statement raises TypeError, which pydantic does not
\* turn into a ValidationError (it does so for ValueError and AssertionError
\* only).  A missing field and a text that is too long are reported by
\* pydantic as a ValidationError.
validate(b) ==
  IF "session_id" \in b.present /\ b.session_id \in BlankSessionIds THEN "TypeError"
  ELSE IF ~(RequiredFields \subseteq b.present) THEN "ValidationError"
  ELSE IF Len(b.user_message) > MaxUserMessageLength THEN "ValidationError"
  ELSE "ok"

\* sessions init_chat_session can register (websocket_app.py:140-151)
InitHistories ==
  {<<>>, <<UserMessage(Q1)>>, <<UserMessage(Q1), AssistantMessage("p1", LongText)>>}

\* ids under which the model registers sessions
SessionIds == {"s1"}

\* models/chat.py:59-71  GroupChatSession
Sessions ==
  [session_id : SessionIds, chat_history : InitHistories, title : {"t"},
   chat_response_llm_size : {"large"}, is_cacheable : BOOLEAN,
   last_quick_replies : {{}, {Q1}}]

\* the value of chat_session while no session has been looked up
NoSession ==
  [session_id |-> "none", chat_history |-> <<>>, title |-> "t",
   chat_response_llm_size |-> "large", is_cacheable |-> TRUE,
   last_quick_replies |-> {}]

\* inbound events the connection handles at most
MaxInbound == 3

\* websocket_app.py:719-721  session.get("chat_sessions", {}).get(session_id),
\* as a list that is empty when the lookup returns None.  The registry is
\* held in two parts: the object the variable chat_session stands for is
\* registered under held_id ("none" when it is registered no longer), every
\* other registered object is in chat_sessions
registered(id) ==
  IF id = held_id THEN <<chat_session>>
  ELSE IF id \in SessionIds THEN chat_sessions[id]
  ELSE <<>>

\* the registry after the object registered under id has become the object
\* chat_session stands for
rebound(id) ==
  [k \in SessionIds |->
     IF k = id THEN <<>>
     ELSE IF k = held_id THEN <<chat_session>>
     ELSE chat_sessions[k]]

\* a handler that appends the user message whatever the tail is
always_appended(chat_history, user_message) ==
  Append(chat_history, UserMessage(user_message))

\* websocket_app.py:728-734: the user message is appended unless its
\* content is that of the last message
appended_history(chat_history, user_message) ==
  IF Len(chat_history) = 0 \/ chat_history[Len(chat_history)].content # user_message
  THEN Append(chat_history, UserMessage(user_message))
  ELSE chat_history

\* a handler that says nothing when the session is not found
session_not_found_silent(sid) == <<>>

\* websocket_app.py:746-762: what the handler emits when the session is not
\* found
session_not_found_events(sid) == <<ChatResponseCompleteDto(sid, "error")>>

\* websocket_app.py:689-762: validation, session access, history append,
\* cacheable update
ReceiveUserMessage ==
  /\ tpc = "idle"
  /\ inbound < MaxInbound
  /\ inbound' = inbound + 1
  /\ UNCHANGED conn_events
  /\ \E b \in Bodies :
       /\ body' = b
       /\ IF validate(b) = "ValidationError"
          THEN \* except ValidationError (websocket_app.py:692-706)
               /\ turn_events' = Append(turn_events, ChatResponseCompleteDto("none", "error"))
               /\ tpc' = "done"
               /\ UNCHANGED <<chat_session, cls, chat_sessions, held_id>>
          ELSE IF validate(b) # "ok"
          THEN \* any other exception of the constructor leaves the handler
               /\ tpc' = "crashed"
               /\ UNCHANGED <<chat_session, cls, turn_events, chat_sessions, held_id>>
          ELSE IF registered(b.session_id) = <<>>
          THEN \* raise ValueError, except Exception (websocket_app.py:722-762)
               /\ turn_events' = turn_events \o session_not_found_events(b.session_id)
               /\ tpc' = "done"
               /\ UNCHANGED <<chat_session, cls, chat_sessions, held_id>>
          ELSE LET found == registered(b.session_id)[1]
                   h2 == appended_history(found.chat_history, b.user_message)
                   is_beginning_of_chat == Len(h2) = 1
               IN  /\ chat_session' =
                        [found EXCEPT
                           !.chat_history = h2,
                           !.is_cacheable =
                              IF ~is_beginning_of_chat
                                 /\ b.user_message \notin found.last_quick_replies
                              THEN FALSE ELSE @]
                   /\ chat_sessions' = rebound(b.session_id)
                   /\ held_id' = b.session_id
                   /\ cls' = [cls EXCEPT !.is_beginning_of_chat = is_beginning_of_chat]
                   /\ tpc' = "get_parties"
                   /\ UNCHANGED turn_events
  /\ UNCHANGED <<todo, tasks, pre, relevant_doc_dict, improved_rag_query_list, lock, events, cache>>
  /\ UNCHANGED <<routerVars, concurrent, fnVars>>

\* websocket_app.py:764  all_parties = await aget_parties(), outside any try
GetParties ==
  /\ tpc = "get_parties"
  /\ \E ok \in BOOLEAN : tpc' = IF ok THEN "classify" ELSE "crashed"
  /\ UNCHANGED <<body, chat_session, cls, todo, tasks, pre, relevant_doc_dict,
                 improved_rag_query_list, lock, events, turn_events, cache>>
  /\ UNCHANGED <<routerVars, concurrent, connVars, fnVars>>

\* exception classes as the except clauses of websocket_app.py tell them
\* apart: openai.BadRequestError, or anything else
ExceptionClasses == {"bad_request", "other"}

\* llms.py:173-189, 205-223: the single-shot router catches every exception
\* of a backend; what leaves it is the plain exhaustion Exception or the
\* exception of the status write, never an openai.BadRequestError
RouterExceptions == {"other"}

\* vector_store_helper.py:80, 174: the embedding call is made directly, the
\* re-ranking goes through the router
RetrievalExceptions == ExceptionClasses

\* websocket_app.py:526: iterating the stream of a backend, or iterating
\* the None that stream_answer_from_llms returns when every backend failed
StreamExceptions == ExceptionClasses

\* firebase_service.py:51-69: Firestore reads and writes
StoreExceptions == {"other"}

\* a list that holds the elements of a set, each once
RECURSIVE as_list(_)
as_list(S) ==
  IF S = {} THEN <<>>
  ELSE LET x == CHOOSE y \in S : TRUE IN <<x>> \o as_list(S \ {x})

\* a classifier output that is left as it is
duplicates_kept(party_id_list) == party_id_list

\* chatbot_async.py:199-203  list(set(party_id_list)): every id of the list,
\* once (the order of the result is that of a Python set, the model keeps
\* the order of the first occurrences)
RECURSIVE deduplicated(_)
deduplicated(party_id_list) ==
  IF party_id_list = <<>> THEN <<>>
  ELSE LET front == deduplicated(SubSeq(party_id_list, 1, Len(party_id_list) - 1))
           last  == party_id_list[Len(party_id_list)]
       IN  IF last \in Range(front) THEN front ELSE Append(front, last)

\* chatbot_async.py:197-211: the id list of the classifier is deduplicated
\* and the neutral provider is dropped from a list of two or more
question_targets(raw) ==
  LET party_id_list == deduplicated(raw)
  IN  IF Len(party_id_list) >= 2
      THEN SelectSeq(party_id_list, LAMBDA party_id : party_id # WAHL_CHAT_PARTY)
      ELSE party_id_list

\* the question a classifier may return in place of the user's wording
NonPartySpecificQuestion == <<"g">>

\* chatbot_async.py:214-238: with two or more ids the question-type model
\* returns non_party_specific_question, which may or may not be the user's
\* wording; with fewer the question is the user message
question_for_parties(user_message, reworded) ==
  IF reworded THEN NonPartySpecificQuestion ELSE user_message

\* websocket_app.py:832-841
target_party_ids(party_id_list, is_beginning_of_chat) ==
  IF party_id_list = <<>> THEN <<WAHL_CHAT_PARTY>>
  ELSE IF is_beginning_of_chat /\ Len(party_id_list) > MaxAutoSelectedParties
  THEN <<WAHL_CHAT_PARTY>>
  ELSE party_id_list

\* the id lists the classifier returns in the model of a turn: every set of
\* ids as a list, and a list that names a party twice
TurnPartyIDLists ==
  {as_list(S) : S \in SUBSET TurnPartyIDs} \cup {<<all_parties[1], all_parties[1]>>}

\* websocket_app.py:843-847
parties_to_respond(ids) == SelectSeq(all_parties \o <<WAHL_CHAT_PARTY>>, LAMBDA p : p \in ids)

\* websocket_app.py:777-936: classification and what follows up to the
\* creation of the coroutines
Classify ==
  /\ tpc = "classify"
  /\ \/ \E class \in RouterExceptions :
          IF class = "bad_request"
          THEN \* except openai.BadRequestError (websocket_app.py:788-826)
               /\ turn_events' = turn_events \o
                    <<RespondingPartiesDto(body.session_id, {WAHL_CHAT_PARTY}),
                      ChatResponseCompleteDto(body.session_id, "error")>>
               /\ events' = [events EXCEPT ![WAHL_CHAT_PARTY] =
                               Append(@, PartyResponseCompleteDto("success", "cannot_answer", <<>>))]
               /\ cls' = [cls EXCEPT !.raised = class]
               /\ tpc' = "done"
               /\ UNCHANGED <<chat_session, todo, pre>>
          ELSE \* any other exception leaves the handler
               /\ cls' = [cls EXCEPT !.raised = class]
               /\ tpc' = "crashed"
               /\ UNCHANGED <<chat_session, todo, pre, events, turn_events>>
     \/ \E raw \in TurnPartyIDLists, cmp \in BOOLEAN, reworded \in BOOLEAN :
          LET ids     == question_targets(raw)
              targets == Range(target_party_ids(ids, cls.is_beginning_of_chat))
              ptr     == parties_to_respond(targets)
          IN  /\ (cmp \/ reworded) => Len(ids) >= 2
              /\ cls' = [cls EXCEPT
                   !.party_id_list = targets,
                   !.general_question = question_for_parties(body.user_message, reworded),
                   !.is_comparing_question = cmp]
              /\ turn_events' = Append(turn_events,
                   RespondingPartiesDto(body.session_id,
                                        IF ~cmp THEN targets ELSE {WAHL_CHAT_PARTY}))
              /\ events' = events
              /\ IF Len(ptr) = 1 \/ ~cmp
                 THEN /\ todo' = ptr
                      /\ tpc' = "proposed"
                      /\ UNCHANGED <<chat_session, pre>>
                 ELSE /\ chat_session' = [chat_session EXCEPT !.is_cacheable = FALSE]
                      /\ pre' = [p \in ProviderIds |-> IF p \in Range(ptr) THEN "rewrite" ELSE "none"]
                      /\ todo' = ptr
                      /\ tpc' = "prepass"
  /\ UNCHANGED <<body, tasks, relevant_doc_dict, improved_rag_query_list, lock, cache>>
  /\ UNCHANGED <<routerVars, concurrent, connVars, fnVars>>

\* websocket_app.py:375: the first suspension point of a provider task
first_await(is_proposed_question, is_cacheable_chat, comparing) ==
  IF is_proposed_question \/ is_cacheable_chat THEN "cache_lookup"
  ELSE IF comparing THEN "compare_sources"
  ELSE "rewrite"

\* websocket_app.py:869-896: one pass of the loop that looks up the proposed
\* questions of a party and creates its coroutine; the lookups are awaited
\* outside any try
ProposedQuestionsLookup ==
  /\ tpc = "proposed"
  /\ todo # <<>>
  /\ LET p == Head(todo)
     IN  \/ /\ tpc' = "crashed"
            /\ UNCHANGED <<chat_session, todo, tasks>>
         \/ \E is_proposed_question \in BOOLEAN :
              LET cacheable == IF cls.is_beginning_of_chat /\ ~is_proposed_question
                               THEN FALSE ELSE chat_session.is_cacheable
              IN  /\ chat_session' = [chat_session EXCEPT !.is_cacheable = cacheable]
                  /\ tasks' = [tasks EXCEPT ![p] =
                       [NoTask EXCEPT
                          !.pc = first_await(is_proposed_question, cacheable, FALSE),
                          !.is_proposed_question = is_proposed_question,
                          !.is_cacheable_chat = cacheable,
                          !.cache_key = cache_key_of(is_proposed_question, cacheable,
                                                     cls.general_question,
                                                     chat_session.chat_history)]]
                  /\ todo' = Tail(todo)
                  /\ tpc' = IF Tail(todo) = <<>> THEN "fanout" ELSE "proposed"
  /\ UNCHANGED <<body, cls, pre, relevant_doc_dict, improved_rag_query_list, lock,
                 events, turn_events, cache>>
  /\ UNCHANGED <<routerVars, concurrent, connVars, fnVars>>

\* websocket_app.py:624-652: the except clauses of a provider task.  The
\* BadRequestError clause builds the completion DTO and drops it; the general
\* clause emits it
except_events(class) ==
  IF class = "bad_request" THEN <<>>
  ELSE <<PartyResponseCompleteDto("error", "generic_apology", <<>>)>>

Raise(p, class) ==
  /\ tasks' = [tasks EXCEPT ![p].pc = "done", ![p].raised = class]
  /\ events' = [events EXCEPT ![p] = @ \o except_events(class)]

TaskAt(p, pc) == tpc = "fanout" /\ tasks[p].pc = pc

\* a draw that always holds the None
none_always_offered(n) == 0..n

\* websocket_app.py:390-398: the draw among n cached answers, by index;
\* index 0 stands for the None that is added while n < cached_answer_limit
possible_answers(n) ==
  (1..n) \cup (IF n < cached_answer_limit THEN {0} ELSE {})

\* a store that drops the answer
not_stored(existing, cached_answer) == existing

\* firebase_service.py:63-69  awrite_cached_answer_for_party: a new document
\* in the collection of the (party, key)
stored_entries(existing, cached_answer) == Append(existing, cached_answer)

\* websocket_app.py:375-413: the cache is consulted, a cached answer is
\* drawn, or None while fewer than cached_answer_limit answers are stored
CacheLookup(p) ==
  /\ TaskAt(p, "cache_lookup")
  /\ \/ \E class \in StoreExceptions : Raise(p, class)
     \/ LET existing == cache[p]
        IN  \E k \in possible_answers(Len(existing)) :
              /\ tasks' = [tasks EXCEPT
                   ![p].found = Len(existing),
                   ![p].pc = IF k # 0 THEN "replay_sources"
                             ELSE IF tasks[p].comparing THEN "compare_sources"
                             ELSE "rewrite",
                   ![p].replay = k # 0,
                   ![p].full_response = IF k # 0 THEN existing[k] ELSE <<>>]
              /\ events' = events
  /\ UNCHANGED <<tpc, body, chat_session, cls, todo, pre, relevant_doc_dict,
                 improved_rag_query_list, lock, turn_events, cache>>
  /\ UNCHANGED <<routerVars, concurrent, connVars, fnVars>>

\* websocket_app.py:277-284
ReplaySources(p) ==
  /\ TaskAt(p, "replay_sources")
  /\ events' = [events EXCEPT ![p] = Append(@, SourcesDto)]
  /\ tasks' = [tasks EXCEPT ![p].pc = "replay_chunks"]
  /\ UNCHANGED <<tpc, body, chat_session, cls, todo, pre, relevant_doc_dict,
                 improved_rag_query_list, lock, turn_events, cache>>
  /\ UNCHANGED <<routerVars, concurrent, connVars, fnVars>>

\* websocket_app.py:289-302: one pass of the replay loop
ReplayChunk(p) ==
  /\ TaskAt(p, "replay_chunks")
  /\ tasks[p].chunk_index < NumSlices(tasks[p].full_response)
  /\ events' = [events EXCEPT ![p] =
       Append(@, PartyResponseChunkDto(tasks[p].chunk_index,
                                       Slice(tasks[p].full_response, tasks[p].chunk_index + 1),
                                       FALSE))]
  /\ tasks' = [tasks EXCEPT ![p].chunk_index = @ + 1]
  /\ UNCHANGED <<tpc, body, chat_session, cls, todo, pre, relevant_doc_dict,
                 improved_rag_query_list, lock, turn_events, cache>>
  /\ UNCHANGED <<routerVars, concurrent, connVars, fnVars>>

\* websocket_app.py:303-310: the finalizing chunk of a replay is built and
\* not emitted
replay_final_events(chunk_index) == <<>>

\* websocket_app.py:550-563: the finalizing chunk of a generated answer
final_events(chunk_index) == <<PartyResponseChunkDto(chunk_index, <<>>, TRUE)>>

\* websocket_app.py:303-336
ReplayComplete(p) ==
  /\ TaskAt(p, "replay_chunks")
  /\ tasks[p].chunk_index = NumSlices(tasks[p].full_response)
  /\ events' = [events EXCEPT ![p] =
       @ \o replay_final_events(tasks[p].chunk_index)
         \o <<PartyResponseCompleteDto("success", "full_content", tasks[p].full_response)>>]
  /\ chat_session' = [chat_session EXCEPT
       !.chat_history = Append(@, AssistantMessage(p, tasks[p].full_response))]
  /\ tasks' = [tasks EXCEPT ![p].pc = "done"]
  /\ UNCHANGED <<tpc, body, cls, todo, pre, relevant_doc_dict,
                 improved_rag_query_list, lock, turn_events, cache>>
  /\ UNCHANGED <<routerVars, concurrent, connVars, fnVars>>

\* websocket_app.py:417-419, chatbot_async.py:245-269
Rewrite(p) ==
  /\ TaskAt(p, "rewrite")
  /\ \/ \E class \in RouterExceptions : Raise(p, class)
     \/ /\ tasks' = [tasks EXCEPT ![p].pc = "retrieve"]
        /\ events' = events
  /\ UNCHANGED <<tpc, body, chat_session, cls, todo, pre, relevant_doc_dict,
                 improved_rag_query_list, lock, turn_events, cache>>
  /\ UNCHANGED <<routerVars, concurrent, connVars, fnVars>>

\* a task that emits no sources event
no_sources_events == <<>>

\* websocket_app.py:453-459, 495-501: the sources event of a generated answer
sources_events == <<SourcesDto>>

\* websocket_app.py:423-459: retrieval, then the sources event
Retrieve(p) ==
  /\ TaskAt(p, "retrieve")
  /\ \/ \E class \in RetrievalExceptions : Raise(p, class)
     \/ /\ tasks' = [tasks EXCEPT ![p].pc = "open_stream"]
        /\ events' = [events EXCEPT ![p] = @ \o sources_events]
  /\ UNCHANGED <<tpc, body, chat_session, cls, todo, pre, relevant_doc_dict,
                 improved_rag_query_list, lock, turn_events, cache>>
  /\ UNCHANGED <<routerVars, concurrent, connVars, fnVars>>

\* websocket_app.py:461-501: the sources event of a comparison, from the
\* documents the pre-pass stored
CompareSources(p) ==
  /\ TaskAt(p, "compare_sources")
  /\ tasks' = [tasks EXCEPT ![p].pc = "open_stream"]
  /\ events' = [events EXCEPT ![p] = @ \o sources_events]
  /\ UNCHANGED <<tpc, body, chat_session, cls, todo, pre, relevant_doc_dict,
                 improved_rag_query_list, lock, turn_events, cache>>
  /\ UNCHANGED <<routerVars, concurrent, connVars, fnVars>>

\* websocket_app.py:504-525, llms.py:226-268: the stream is opened; it is a
\* backend's stream, or None once every backend has failed to open, or the
\* status write raises
OpenStream(p) ==
  /\ TaskAt(p, "open_stream")
  /\ \/ \E class \in StoreExceptions : Raise(p, class)
     \/ \E chunk_stream \in {"stream", "None"} :
          /\ tasks' = [tasks EXCEPT ![p].pc = IF chunk_stream = "None" THEN "drain_none" ELSE "drain"]
          /\ events' = events
  /\ UNCHANGED <<tpc, body, chat_session, cls, todo, pre, relevant_doc_dict,
                 improved_rag_query_list, lock, turn_events, cache>>
  /\ UNCHANGED <<routerVars, concurrent, connVars, fnVars>>

\* websocket_app.py:526: async for over None raises TypeError
DrainNone(p) ==
  /\ TaskAt(p, "drain_none")
  /\ Raise(p, "other")
  /\ UNCHANGED <<tpc, body, chat_session, cls, todo, pre, relevant_doc_dict,
                 improved_rag_query_list, lock, turn_events, cache>>
  /\ UNCHANGED <<routerVars, concurrent, connVars, fnVars>>

\* websocket_app.py:526-547: one message chunk of the stream, emitted in
\* slices of MAX_RESPONSE_CHUNK_LENGTH, or an exception of the stream
DrainChunk(p) ==
  /\ TaskAt(p, "drain")
  /\ \/ \E class \in StreamExceptions : Raise(p, class)
     \/ /\ tasks[p].fetched < MaxStreamChunks
        /\ \E message_chunk \in ChunkContents :
             /\ tasks' = [tasks EXCEPT
                  ![p].fetched = @ + 1,
                  ![p].full_response = @ \o message_chunk,
                  ![p].chunk_index = @ + NumSlices(message_chunk)]
             /\ events' = [events EXCEPT ![p] =
                  @ \o chunk_events(message_chunk, tasks[p].chunk_index)]
  /\ UNCHANGED <<tpc, body, chat_session, cls, todo, pre, relevant_doc_dict,
                 improved_rag_query_list, lock, turn_events, cache>>
  /\ UNCHANGED <<routerVars, concurrent, connVars, fnVars>>

\* websocket_app.py:549-603: the stream has ended: finalizing chunk,
\* history append of the sanitized content, completion event
StreamEnd(p) ==
  /\ TaskAt(p, "drain")
  /\ LET full_content == sanitize_references(tasks[p].full_response)
     IN  /\ events' = [events EXCEPT ![p] =
               @ \o final_events(tasks[p].chunk_index)
                 \o <<PartyResponseCompleteDto("success", "full_content", full_content)>>]
         /\ chat_session' = [chat_session EXCEPT
               !.chat_history = Append(@, AssistantMessage(p, full_content))]
         /\ tasks' = [tasks EXCEPT
               ![p].pc = IF tasks[p].cache_key # NoneKey THEN "cache_write" ELSE "done",
               ![p].full_response = full_content]
  /\ UNCHANGED <<tpc, body, cls, todo, pre, relevant_doc_dict,
                 improved_rag_query_list, lock, turn_events, cache>>
  /\ UNCHANGED <<routerVars, concurrent, connVars, fnVars>>

\* websocket_app.py:605-623: a generated answer that has a cache key is
\* written to the cache; the write is inside the try of the task
CacheWrite(p) ==
  /\ TaskAt(p, "cache_write")
  /\ \/ /\ \E class \in StoreExceptions : Raise(p, class)
        /\ cache' = cache
     \/ /\ cache' = [cache EXCEPT ![p] = stored_entries(@, tasks[p].full_response)]
        /\ tasks' = [tasks EXCEPT ![p].pc = "done"]
        /\ events' = events
  /\ UNCHANGED <<tpc, body, chat_session, cls, todo, pre, relevant_doc_dict,
                 improved_rag_query_list, lock, turn_events>>
  /\ UNCHANGED <<routerVars, concurrent, connVars, fnVars>>

\* websocket_app.py:667-669: process_party rewrites the query; an exception
\* of a pre-pass coroutine leaves gather, wait_for and the handler
PrepassRewrite(p) ==
  /\ tpc = "prepass"
  /\ pre[p] = "rewrite"
  /\ \/ /\ \E class \in RouterExceptions : pre' = [pre EXCEPT ![p] = "raised"]
        /\ tpc' = "crashed"
     \/ /\ pre' = [pre EXCEPT ![p] = "retrieve"]
        /\ tpc' = tpc
  /\ UNCHANGED <<body, chat_session, cls, todo, tasks, relevant_doc_dict,
                 improved_rag_query_list, lock, events, turn_events, cache>>
  /\ UNCHANGED <<routerVars, concurrent, connVars, fnVars>>

\* websocket_app.py:671-676: retrieval; the task then asks for the lock
PrepassRetrieve(p) ==
  /\ tpc = "prepass"
  /\ pre[p] = "retrieve"
  /\ \/ /\ \E class \in RetrievalExceptions : pre' = [pre EXCEPT ![p] = "raised"]
        /\ tpc' = "crashed"
     \/ /\ pre' = [pre EXCEPT ![p] = "lock_query"]
        /\ tpc' = tpc
  /\ UNCHANGED <<body, chat_session, cls, todo, tasks, relevant_doc_dict,
                 improved_rag_query_list, lock, events, turn_events, cache>>
  /\ UNCHANGED <<routerVars, concurrent, connVars, fnVars>>

\* a lock that every task may take at any time
never_locked(l) == FALSE

\* asyncio.Lock.locked(): the lock of websocket_app.py:904 is held
locked(l) == l # "free"

\* websocket_app.py:679, 683: async with lock, entered: the task goes on
\* once the lock is free and holds it.  The event loop runs a section
\* without suspending the task; here the other tasks may run between the
\* steps of a section, which includes every schedule of the loop
AcquireLock(p) ==
  /\ tpc = "prepass"
  /\ pre[p] \in {"lock_query", "lock_docs"}
  /\ ~locked(lock)
  /\ lock' = p
  /\ pre' = [pre EXCEPT ![p] = IF pre[p] = "lock_query" THEN "append_query" ELSE "store_docs"]
  /\ UNCHANGED <<tpc, body, chat_session, cls, todo, tasks, relevant_doc_dict,
                 improved_rag_query_list, events, turn_events, cache>>
  /\ UNCHANGED <<routerVars, concurrent, connVars, fnVars>>

\* websocket_app.py:680: improved_rag_query_list.append(improved_rag_query)
AppendQuery(p) ==
  /\ tpc = "prepass"
  /\ pre[p] = "append_query"
  /\ improved_rag_query_list' = Append(improved_rag_query_list, p)
  /\ pre' = [pre EXCEPT ![p] = "unlock_query"]
  /\ UNCHANGED <<tpc, body, chat_session, cls, todo, tasks, relevant_doc_dict,
                 lock, events, turn_events, cache>>
  /\ UNCHANGED <<routerVars, concurrent, connVars, fnVars>>

\* websocket_app.py:684: relevant_doc_dict[party.party_id] = relevant_docs
StoreDocs(p) ==
  /\ tpc = "prepass"
  /\ pre[p] = "store_docs"
  /\ relevant_doc_dict' = relevant_doc_dict \cup {p}
  /\ pre' = [pre EXCEPT ![p] = "unlock_docs"]
  /\ UNCHANGED <<tpc, body, chat_session, cls, todo, tasks,
                 improved_rag_query_list, lock, events, turn_events, cache>>
  /\ UNCHANGED <<routerVars, concurrent, connVars, fnVars>>

\* websocket_app.py:679-684: async with lock, left: the lock is released;
\* after the second section process_party returns
ReleaseLock(p) ==
  /\ tpc = "prepass"
  /\ pre[p] \in {"unlock_query", "unlock_docs"}
  /\ lock' = "free"
  /\ pre' = [pre EXCEPT ![p] = IF pre[p] = "unlock_query" THEN "lock_docs" ELSE "done"]
  /\ UNCHANGED <<tpc, body, chat_session, cls, todo, tasks, relevant_doc_dict,
                 improved_rag_query_list, events, turn_events, cache>>
  /\ UNCHANGED <<routerVars, concurrent, connVars, fnVars>>

\* websocket_app.py:938-957: the pre-pass has ended; the neutral provider
\* answers the comparison
PrepassDone ==
  /\ tpc = "prepass"
  /\ \A p \in Range(todo) : pre[p] = "done"
  /\ tasks' = [tasks EXCEPT ![WAHL_CHAT_PARTY] =
       [NoTask EXCEPT
          !.pc = first_await(FALSE, chat_session.is_cacheable, TRUE),
          !.is_cacheable_chat = chat_session.is_cacheable,
          !.cache_key = cache_key_of(FALSE, chat_session.is_cacheable,
                                     body.user_message, chat_session.chat_history),
          !.comparing = TRUE]]
  /\ todo' = <<>>
  /\ tpc' = "fanout"
  /\ UNCHANGED <<body, chat_session, cls, pre, relevant_doc_dict,
                 improved_rag_query_list, lock, events, turn_events, cache>>
  /\ UNCHANGED <<routerVars, concurrent, connVars, fnVars>>

\* websocket_app.py:920: timeout of the wait_for of the pre-pass, in seconds
prepass_timeout == 40

\* websocket_app.py:963: timeout of the wait_for of the fan-out, in seconds
fanout_timeout == 40

\* the process_party task of p has not returned
PrepassRunning(p) == pre[p] \notin {"none", "done", "raised", "cancelled"}

\* websocket_app.py:922-936: the 40 s of the pre-pass run out; wait_for
\* cancels the tasks, and a cancelled task leaves its async with
PrepassTimeout ==
  /\ tpc = "prepass"
  /\ \E p \in Range(todo) : pre[p] # "done"
  /\ pre' = [p \in ProviderIds |->
               IF PrepassRunning(p) THEN "cancelled" ELSE pre[p]]
  /\ lock' = "free"
  /\ turn_events' = Append(turn_events, ChatResponseCompleteDto(body.session_id, "error"))
  /\ tpc' = "done"
  /\ UNCHANGED <<body, chat_session, cls, todo, tasks, relevant_doc_dict,
                 improved_rag_query_list, events, cache>>
  /\ UNCHANGED <<routerVars, concurrent, connVars, fnVars>>

Running(p) == tasks[p].pc \notin {"none", "done", "cancelled"}

\* websocket_app.py:960-964: gather returns once every coroutine has returned
FanoutDone ==
  /\ tpc = "fanout"
  /\ \A p \in ProviderIds : ~Running(p)
  /\ tpc' = "title"
  /\ UNCHANGED <<body, chat_session, cls, todo, tasks, pre, relevant_doc_dict,
                 improved_rag_query_list, lock, events, turn_events, cache>>
  /\ UNCHANGED <<routerVars, concurrent, connVars, fnVars>>

\* a handler that goes on after the deadline as if the fan-out had returned
timeout_ignored(sid) ==
  <<QuickRepliesAndTitleDto(sid), ChatResponseCompleteDto(sid, "success")>>

\* websocket_app.py:965-979: what the handler emits when the fan-out timed out
timeout_events(sid) == <<ChatResponseCompleteDto(sid, "error")>>

\* websocket_app.py:965-979: the 40 s of the fan-out run out; wait_for
\* cancels the coroutines that have not returned
FanoutTimeout ==
  /\ tpc = "fanout"
  /\ \E p \in ProviderIds : Running(p)
  /\ tasks' = [p \in ProviderIds |->
                 IF Running(p) THEN [tasks[p] EXCEPT !.pc = "cancelled"] ELSE tasks[p]]
  /\ turn_events' = turn_events \o timeout_events(body.session_id)
  /\ tpc' = "done"
  /\ UNCHANGED <<body, chat_session, cls, todo, pre, relevant_doc_dict,
                 improved_rag_query_list, lock, events, cache>>
  /\ UNCHANGED <<routerVars, concurrent, connVars, fnVars>>

\* a handler that reports the end of the turn before the title
completion_before_title(sid) ==
  <<ChatResponseCompleteDto(sid, "success"), QuickRepliesAndTitleDto(sid)>>

\* websocket_app.py:1016-1040: the title event, then the completion of the
\* turn
title_events(sid) ==
  <<QuickRepliesAndTitleDto(sid), ChatResponseCompleteDto(sid, "success")>>

\* quick replies the title generation may return
QuickReplies == {{}, {Q2}}

\* websocket_app.py:989-1040: title and quick replies, then the completion
\* of the turn
GenerateTitle ==
  /\ tpc = "title"
  /\ \/ \E class \in RouterExceptions :
          IF class = "bad_request"
          THEN /\ turn_events' = Append(turn_events,
                    ChatResponseCompleteDto(body.session_id, "error"))
               /\ tpc' = "done"
               /\ UNCHANGED chat_session
          ELSE /\ tpc' = "crashed"
               /\ UNCHANGED <<chat_session, turn_events>>
     \/ \E quick_replies \in QuickReplies :
          /\ turn_events' = turn_events \o title_events(chat_session.session_id)
          /\ chat_session' = [chat_session EXCEPT !.last_quick_replies = quick_replies]
          /\ tpc' = "done"
  /\ UNCHANGED <<body, cls, todo, tasks, pre, relevant_doc_dict,
                 improved_rag_query_list, lock, events, cache>>
  /\ UNCHANGED <<routerVars, concurrent, connVars, fnVars>>

\* websocket_app.py:80-89: with async_handlers=True every chat_answer_request
\* runs as a task of its own, so a provider task of another turn can use the
\* same (provider, key) while the tasks of this turn run
NoConcurrentTask == [pc |-> "none", party |-> "none"]

\* websocket_app.py:383-398: the lookup of the other task and its draw
ConcurrentLookup(p) ==
  /\ concurrent.pc = "none"
  /\ \E k \in possible_answers(Len(cache[p])) :
       concurrent' = [pc |-> IF k = 0 THEN "generate" ELSE "replay", party |-> p]
  /\ UNCHANGED <<tpc, body, chat_session, cls, todo, tasks, pre, relevant_doc_dict,
                 improved_rag_query_list, lock, events, turn_events, cache>>
  /\ UNCHANGED <<routerVars, connVars, fnVars>>

\* websocket_app.py:605-623: the other task has generated its answer and
\* writes it to the cache
ConcurrentStore ==
  /\ concurrent.pc = "generate"
  /\ cache' = [cache EXCEPT ![concurrent.party] = stored_entries(@, LongText)]
  /\ concurrent' = [concurrent EXCEPT !.pc = "done"]
  /\ UNCHANGED <<tpc, body, chat_session, cls, todo, tasks, pre, relevant_doc_dict,
                 improved_rag_query_list, lock, events, turn_events>>
  /\ UNCHANGED <<routerVars, connVars, fnVars>>

\* websocket_app.py:80-89, 716-745: another chat_answer_request for the
\* session of the connection; with async_handlers=True it is a task of its
\* own, and it runs its session access (history append, cacheable update)
\* whenever the event loop resumes it, whatever the turn in flight does
OverlappingMessage ==
  /\ concurrent.pc = "none"
  /\ held_id \in SessionIds
  /\ \E user_message \in {Q1, Q2} :
       LET h2 == appended_history(chat_session.chat_history, user_message)
       IN  chat_session' =
             [chat_session EXCEPT
                !.chat_history = h2,
                !.is_cacheable =
                   IF Len(h2) # 1 /\ user_message \notin chat_session.last_quick_replies
                   THEN FALSE ELSE @]
  /\ concurrent' = [pc |-> "get_parties", party |-> "none"]
  /\ UNCHANGED <<tpc, body, cls, todo, tasks, pre, relevant_doc_dict,
                 improved_rag_query_list, lock, events, turn_events, cache>>
  /\ UNCHANGED <<routerVars, connVars, fnVars>>

\* websocket_app.py:578-587: a provider task of the other request has its
\* answer and appends it to the history of the session
OverlappingAnswer(p) ==
  /\ concurrent.pc = "get_parties"
  /\ chat_session' = [chat_session EXCEPT
        !.chat_history = Append(@, AssistantMessage(p, LongText))]
  /\ concurrent' = [pc |-> "answered", party |-> p]
  /\ UNCHANGED <<tpc, body, cls, todo, tasks, pre, relevant_doc_dict,
                 improved_rag_query_list, lock, events, turn_events, cache>>
  /\ UNCHANGED <<routerVars, connVars, fnVars>>

\* dtos.py:52-54: the fields of InitChatSessionDto without a default
InitRequiredFields == {"session_id", "chat_history", "current_title"}

\* dtos.py:55-64: the fields of InitChatSessionDto that have a default
InitOptionalFields == {"chat_response_llm_size", "last_quick_replies", "is_cacheable"}

\* payloads of chat_session_init: JSON objects that carry every field, one
\* that leaves the optional fields out, one with another title and size,
\* one that lacks current_title, and a payload that is not a JSON object
InitBodies ==
  [mapping : {TRUE}, present : {InitRequiredFields \cup InitOptionalFields},
   session_id : SessionIds,
   chat_history : {<<>>, <<UserMessage(Q1), AssistantMessage("p1", LongText)>>},
   current_title : {"t"}, chat_response_llm_size : {"large"},
   last_quick_replies : {{Q2}}, is_cacheable : BOOLEAN]
  \cup {[mapping |-> TRUE, present |-> InitRequiredFields, session_id |-> "s1",
         chat_history |-> <<>>, current_title |-> "t",
         chat_response_llm_size |-> "small", last_quick_replies |-> {Q1},
         is_cacheable |-> FALSE],
        [mapping |-> TRUE, present |-> InitRequiredFields \cup InitOptionalFields,
         session_id |-> "s1", chat_history |-> <<>>, current_title |-> "u",
         chat_response_llm_size |-> "small", last_quick_replies |-> {},
         is_cacheable |-> TRUE],
        [mapping |-> TRUE, present |-> InitRequiredFields \ {"current_title"},
         session_id |-> "s1", chat_history |-> <<>>, current_title |-> "t",
         chat_response_llm_size |-> "large", last_quick_replies |-> {},
         is_cacheable |-> TRUE],
        [mapping |-> FALSE, present |-> {}, session_id |-> "s1",
         chat_history |-> <<>>, current_title |-> "t",
         chat_response_llm_size |-> "large", last_quick_replies |-> {},
         is_cacheable |-> TRUE]}

\* websocket_app.py:122  InitChatSessionDto(**body): unpacking a body that is
\* not a mapping raises TypeError; pydantic reports a missing required field
\* as a ValidationError
validate_init(b) ==
  IF ~b.mapping THEN "TypeError"
  ELSE IF ~(InitRequiredFields \subseteq b.present) THEN "ValidationError"
  ELSE "ok"

\* dtos.py:51-64  InitChatSessionDto: the fields of the body, and the default
\* of an optional field the body leaves out
InitChatSessionDto(b) ==
  [session_id |-> b.session_id, chat_history |-> b.chat_history,
   current_title |-> b.current_title,
   chat_response_llm_size |->
     IF "chat_response_llm_size" \in b.present THEN b.chat_response_llm_size ELSE "large",
   last_quick_replies |->
     IF "last_quick_replies" \in b.present THEN b.last_quick_replies ELSE {},
   is_cacheable |-> IF "is_cacheable" \in b.present THEN b.is_cacheable ELSE TRUE]

\* websocket_app.py:140-147
GroupChatSession(create_session_dto) ==
  [session_id |-> create_session_dto.session_id,
   chat_history |-> create_session_dto.chat_history,
   title |-> create_session_dto.current_title,
   chat_response_llm_size |-> create_session_dto.chat_response_llm_size,
   is_cacheable |-> create_session_dto.is_cacheable,
   last_quick_replies |-> create_session_dto.last_quick_replies]

\* dtos.py:67-71; session_id "none" stands for None
ChatSessionInitializedDto(sid, status) ==
  [type |-> "chat_session_initialized", session_id |-> sid, status |-> status]

\* websocket_app.py:118-163  the handler of chat_session_init.  It runs
\* whatever the handler of a user message is doing (async_handlers=True); a
\* session registered under the id of the payload is replaced by a new
\* object, the old object stays with the turn that looked it up
init_chat_session(b) ==
  /\ inbound < MaxInbound
  /\ inbound' = inbound + 1
  /\ IF validate_init(b) = "ValidationError"
     THEN \* except ValidationError (websocket_app.py:123-136)
          /\ conn_events' = Append(conn_events, ChatSessionInitializedDto("none", "error"))
          /\ UNCHANGED <<chat_sessions, held_id>>
     ELSE IF validate_init(b) # "ok"
     THEN \* any other exception leaves the handler
          UNCHANGED <<conn_events, chat_sessions, held_id>>
     ELSE LET create_session_dto == InitChatSessionDto(b)
          IN  /\ chat_sessions' = [chat_sessions EXCEPT
                    ![create_session_dto.session_id] = <<GroupChatSession(create_session_dto)>>]
              /\ held_id' = IF held_id = create_session_dto.session_id THEN "none" ELSE held_id
              /\ conn_events' = Append(conn_events,
                    ChatSessionInitializedDto(create_session_dto.session_id, "success"))
  /\ UNCHANGED <<tpc, body, chat_session, cls, todo, tasks, pre, relevant_doc_dict,
                 improved_rag_query_list, lock, events, turn_events, cache>>
  /\ UNCHANGED <<routerVars, concurrent, fnVars>>

\* websocket_app.py:97-110  the handler of disconnect drops every session of
\* the connection
disconnect ==
  /\ inbound < MaxInbound
  /\ inbound' = inbound + 1
  /\ chat_sessions' = [k \in SessionIds |-> <<>>]
  /\ held_id' = "none"
  /\ UNCHANGED <<tpc, body, chat_session, cls, todo, tasks, pre, relevant_doc_dict,
                 improved_rag_query_list, lock, events, turn_events, cache, conn_events>>
  /\ UNCHANGED <<routerVars, concurrent, fnVars>>

\* the handler of a user message has returned or was left by an exception:
\* its locals are gone, the session object and the cache stay
HandlerReturned ==
  /\ tpc \in {"done", "crashed"}
  /\ tpc' = "idle"
  /\ body' = [present |-> {}, session_id |-> "", user_message |-> <<>>]
  /\ cls' = NoCls
  /\ todo' = <<>>
  /\ tasks' = [p \in ProviderIds |-> NoTask]
  /\ pre' = [p \in ProviderIds |-> "none"]
  /\ relevant_doc_dict' = {}
  /\ improved_rag_query_list' = <<>>
  /\ lock' = "free"
  /\ events' = [p \in ProviderIds |-> <<>>]
  /\ turn_events' = <<>>
  /\ UNCHANGED <<chat_session, cache>>
  /\ UNCHANGED <<routerVars, concurrent, connVars, fnVars>>

\* the response cache under the keys of the turn: empty, or one answer
\* stored for every provider
Caches ==
  {[p \in ProviderIds |-> <<>>], [p \in ProviderIds |-> <<LongText>>]}

\* no call of a function is made
NoArgs == [fn |-> "none"]

NoRet == [status |-> "none"]

TurnLocalsIdle(s, c) ==
  /\ tpc = "idle"
  /\ body = [present |-> {}, session_id |-> "", user_message |-> <<>>]
  /\ chat_session = s
  /\ cls = NoCls
  /\ todo = <<>>
  /\ tasks = [p \in ProviderIds |-> NoTask]
  /\ pre = [p \in ProviderIds |-> "none"]
  /\ relevant_doc_dict = {}
  /\ improved_rag_query_list = <<>>
  /\ lock = "free"
  /\ events = [p \in ProviderIds |-> <<>>]
  /\ turn_events = <<>>
  /\ cache = c
  /\ concurrent = NoConcurrentTask
  /\ chat_sessions = [k \in SessionIds |-> <<>>]
  /\ held_id = IF s.session_id \in SessionIds THEN s.session_id ELSE "none"
  /\ conn_events = <<>>
  /\ inbound = 0

TurnIdle(s, c) == TurnLocalsIdle(s, c) /\ args = NoArgs /\ ret = NoRet

FreshSession ==
  [session_id |-> "s1", chat_history |-> <<>>, title |-> "t",
   chat_response_llm_size |-> "large", is_cacheable |-> TRUE,
   last_quick_replies |-> {}]

EmptyCache == [p \in ProviderIds |-> <<>>]

RouterIdle(p) ==
  /\ pool = p
  /\ is_at_rate_limit = [i \in 1..Len(p) |-> FALSE]
  /\ rpc = "idle"
  /\ req = IdleReq
  /\ llms = <<>>
  /\ back_up_llms = <<>>
  /\ idx = 0
  /\ attempts = <<>>
  /\ signals = 0
  /\ result = NoResult
  /\ flags0 = [i \in 1..Len(p) |-> FALSE]
  /\ nreq = 0

\* pools that vary in priority and back_up_only; every backend serves both
\* sizes and none is premium_only (the defaults of the LLM model)
RouterPools ==
  [1..PoolSize -> {d \in LLM : d.sizes = LLMSize /\ ~d.premium_only}]

\* pools that vary in sizes, priority and premium_only, without a back-up tier
StreamPools ==
  [1..StreamPoolSize -> {d \in LLM : ~d.back_up_only}]

\* a pool of one backend, as the turn sees the router only by its outcomes
OnePool ==
  <<[sizes |-> LLMSize, priority |-> 1, premium_only |-> FALSE, back_up_only |-> FALSE]>>

InitRouter == (\E p \in RouterPools : RouterIdle(p)) /\ TurnIdle(FreshSession, EmptyCache)

InitStream == (\E p \in StreamPools : RouterIdle(p)) /\ TurnIdle(FreshSession, EmptyCache)

Init == RouterIdle(OnePool) /\ \E s \in Sessions, c \in Caches : TurnIdle(s, c)

NextRouter ==
  \/ \E mode \in {"answer", "structured"} : StartSingle(mode)
  \/ PrimaryAttempt
  \/ handle_rate_limit_hit_for_all_llms
  \/ BackupAttempt
  \/ \E size \in LLMSize, premium \in BOOLEAN : stream_answer_from_llms(size, premium)
  \/ StreamAllFailed
  \/ RouterCallEnds

NextStream ==
  \/ \E size \in LLMSize, premium \in BOOLEAN : stream_answer_from_llms(size, premium)
  \/ StreamAllFailed
  \/ RouterCallEnds

Next ==
  \/ ReceiveUserMessage
  \/ GetParties
  \/ Classify
  \/ ProposedQuestionsLookup
  \/ \E p \in ProviderIds : PrepassRewrite(p)
  \/ \E p \in ProviderIds : PrepassRetrieve(p)
  \/ \E p \in ProviderIds : AcquireLock(p)
  \/ \E p \in ProviderIds : AppendQuery(p)
  \/ \E p \in ProviderIds : StoreDocs(p)
  \/ \E p \in ProviderIds : ReleaseLock(p)
  \/ PrepassDone
  \/ PrepassTimeout
  \/ \E p \in ProviderIds : CacheLookup(p)
  \/ \E p \in ProviderIds : ReplaySources(p)
  \/ \E p \in ProviderIds : ReplayChunk(p)
  \/ \E p \in ProviderIds : ReplayComplete(p)
  \/ \E p \in ProviderIds : Rewrite(p)
  \/ \E p \in ProviderIds : Retrieve(p)
  \/ \E p \in ProviderIds : CompareSources(p)
  \/ \E p \in ProviderIds : OpenStream(p)
  \/ \E p \in ProviderIds : DrainNone(p)
  \/ \E p \in ProviderIds : DrainChunk(p)
  \/ \E p \in ProviderIds : StreamEnd(p)
  \/ \E p \in ProviderIds : CacheWrite(p)
  \/ FanoutDone
  \/ FanoutTimeout
  \/ GenerateTitle

SpecRouter == InitRouter /\ [][NextRouter]_vars

SpecStream == InitStream /\ [][NextStream]_vars

Spec == Init /\ [][Next]_vars

\* a turn on a fresh session and an empty cache, next to a task of another
\* turn for the first party of the directory
InitCache == RouterIdle(OnePool) /\ TurnIdle(FreshSession, EmptyCache)

NextCache ==
  \/ Next
  \/ ConcurrentLookup(all_parties[1])
  \/ ConcurrentStore

SpecCache == InitCache /\ [][NextCache]_vars

\* a connection on which no session has been initialised
InitSession == RouterIdle(OnePool) /\ TurnIdle(NoSession, EmptyCache)

\* the turns of the connection model: the classifier resolves the first
\* party of the directory, the neutral provider or a comparison of parties
\* of the directory, it keeps the user's wording, and a backend stream
\* yields one message chunk at most
SessionScope ==
  /\ cls.party_id_list \subseteq ProviderIds
  /\ ~cls.is_comparing_question
       => cls.party_id_list \in {{}, {all_parties[1]}, {WAHL_CHAT_PARTY}}
  /\ cls.general_question # NonPartySpecificQuestion
  /\ \A p \in ProviderIds : tasks[p].fetched <= 1

NextSession ==
  \/ Next /\ SessionScope'
  \/ \E b \in InitBodies : init_chat_session(b)
  \/ disconnect
  \/ HandlerReturned

SpecSession == InitSession /\ [][NextSession]_vars

\* two chat_answer_request events for the session of a connection
InitOverlap == RouterIdle(OnePool) /\ \E c \in Caches : TurnIdle(FreshSession, c)

NextOverlap ==
  \/ Next /\ SessionScope'
  \/ OverlappingMessage
  \/ OverlappingAnswer(all_parties[1])

SpecOverlap == InitOverlap /\ [][NextOverlap]_vars

\* nothing but the call of a function happens
CallOnly(a) ==
  /\ RouterIdle(OnePool)
  /\ TurnLocalsIdle(FreshSession, EmptyCache)
  /\ args = a
  /\ ret = NoRet

Returned(value) == [status |-> "returned", value |-> value]

Raised(exception) == [status |-> "raised", value |-> exception]

\* id lists a classifier can return: the ids of any subset of the
\* enumeration, each once or the first of them twice
PartyIDLists ==
  UNION {{as_list(S), IF S = {} THEN <<>> ELSE Append(as_list(S), as_list(S)[1])} :
           S \in SUBSET PartyID}

\* chatbot_async.py:197-211, websocket_app.py:832-841: from the id list of
\* the classifier to the party_id_list of the turn
ResolveTargets ==
  /\ args.fn = "question_targets"
  /\ ret = NoRet
  /\ ret' = Returned(target_party_ids(question_targets(args.party_id_list),
                                      args.is_beginning_of_chat))
  /\ UNCHANGED <<routerVars, tpc, body, chat_session, cls, todo, tasks, pre,
                 relevant_doc_dict, improved_rag_query_list, lock, events, turn_events,
                 cache, concurrent, connVars, args>>

InitTargets ==
  \E l \in PartyIDLists, b \in BOOLEAN :
    CallOnly([fn |-> "question_targets", party_id_list |-> l, is_beginning_of_chat |-> b])

NextTargets == ResolveTargets

SpecTargets == InitTargets /\ [][NextTargets]_vars

\* a message content that holds the end of a history line and the start of
\* the next one
FramedText ==
  <<"a", "\"", "\n", "2", ".", " ", "Nutzer", ":", " ", "\"", "b">>

\* models/chat.py:18-26  messages of a history: of the user, of a party of
\* the directory, of the neutral provider, of a party the directory lacks,
\* and without a party_id ("none" stands for None)
HistoryMessages ==
  {UserMessage(c) : c \in {<<"a">>, <<"b">>, FramedText}}
  \cup {AssistantMessage(p, c) : p \in {"p1", WAHL_CHAT_PARTY, "p3", "none"},
                                c \in {<<"a">>, <<"b">>}}

\* histories of two messages at most
Histories ==
  {<<>>} \cup {<<m>> : m \in HistoryMessages}
         \cup {<<m, n>> : m \in HistoryMessages, n \in HistoryMessages}

\* websocket_app.py:364-379: the fingerprints of two histories
Fingerprint ==
  /\ args.fn = "get_chat_history_hash_key"
  /\ ret = NoRet
  /\ ret' = Returned(
       <<get_chat_history_hash_key(build_chat_history_string(args.first)),
         get_chat_history_hash_key(build_chat_history_string(args.second))>>)
  /\ UNCHANGED <<routerVars, tpc, body, chat_session, cls, todo, tasks, pre,
                 relevant_doc_dict, improved_rag_query_list, lock, events, turn_events,
                 cache, concurrent, connVars, args>>

InitFingerprint ==
  \E h1 \in Histories, h2 \in Histories :
    CallOnly([fn |-> "get_chat_history_hash_key", first |-> h1, second |-> h2])

NextFingerprint == Fingerprint

SpecFingerprint == InitFingerprint /\ [][NextFingerprint]_vars

\* chatbot_async.py:130, 137; vector_store_helper.py:172: the number of
\* documents that are kept
TopK == 5

\* the most documents a retrieval returns here (n_docs is 20)
MaxRetrieved == 6

\* vector_store_helper.py:160-166: the documents of a retrieval in
\* similarity order, each named by its rank
RetrievedDocs == {[i \in 1..n |-> i] : n \in 0..MaxRetrieved}

\* a Python slice seq[:k]
first_k(seq, k) == SubSeq(seq, 1, IF Len(seq) < k THEN Len(seq) ELSE k)

\* Python indexing seq[i]: 0-based, a negative index counts from the end
valid_index(seq, i) == -Len(seq) <= i /\ i < Len(seq)

item(seq, i) == IF i >= 0 THEN seq[i + 1] ELSE seq[Len(seq) + i + 1]

\* index lists of the re-ranking model: list[int] without constraint
\* (structured_outputs.py:85).  Short lists of any indices, and lists of
\* TopK and TopK + 1 indices with one index replaced
IndexValues == (0 - MaxRetrieved - 1)..MaxRetrieved

IndexLists ==
  {<<>>} \cup {<<i>> : i \in IndexValues}
         \cup {<<i, j>> : i \in IndexValues, j \in IndexValues}
         \cup {[<<4, 2, 0, 1, 3>> EXCEPT ![k] = i] : k \in 1..TopK, i \in IndexValues}
         \cup {[<<5, 3, 1, 0, 2, 4>> EXCEPT ![k] = i] : k \in {1, TopK + 1}, i \in IndexValues}

\* llms.py:192-223: what get_structured_output_from_llms does for the
\* re-ranking: it returns a RerankingOutput, or a value without the
\* attribute, or raises once every backend failed
RerankingResponses ==
  {[kind |-> "raises"], [kind |-> "no_attribute"]}
  \cup {[kind |-> "RerankingOutput", reranked_doc_indices |-> l] : l \in IndexLists}

\* chatbot_async.py:102-138  rerank_documents
rerank_documents(relevant_docs, response) ==
  IF response.kind = "raises" THEN Raised("Exception")
  ELSE LET reranked_doc_indices ==
             IF response.kind = "RerankingOutput"
             THEN response.reranked_doc_indices ELSE <<>>
           relevant_indices == first_k(reranked_doc_indices, TopK)
       IN  IF \A k \in 1..Len(relevant_indices) :
                 valid_index(relevant_docs, relevant_indices[k])
           THEN Returned([k \in 1..Len(relevant_indices) |->
                            item(relevant_docs, relevant_indices[k])])
           ELSE Returned(first_k(relevant_docs, TopK))

\* vector_store_helper.py:172-181: fewer than five documents are returned
\* as they are
ReturnRetrieved ==
  /\ args.fn = "identify_relevant_docs_with_llm_based_reranking"
  /\ ret = NoRet
  /\ Len(args.relevant_docs) < TopK
  /\ ret' = Returned(args.relevant_docs)
  /\ UNCHANGED <<routerVars, tpc, body, chat_session, cls, todo, tasks, pre,
                 relevant_doc_dict, improved_rag_query_list, lock, events, turn_events,
                 cache, concurrent, connVars, args>>

\* vector_store_helper.py:172-179: five documents or more are re-ranked
RerankRetrieved ==
  /\ args.fn = "identify_relevant_docs_with_llm_based_reranking"
  /\ ret = NoRet
  /\ Len(args.relevant_docs) >= TopK
  /\ ret' = rerank_documents(args.relevant_docs, args.response)
  /\ UNCHANGED <<routerVars, tpc, body, chat_session, cls, todo, tasks, pre,
                 relevant_doc_dict, improved_rag_query_list, lock, events, turn_events,
                 cache, concurrent, connVars, args>>

InitRerank ==
  \E docs \in RetrievedDocs, response \in RerankingResponses :
    CallOnly([fn |-> "identify_relevant_docs_with_llm_based_reranking",
              relevant_docs |-> docs, response |-> response])

NextRerank == ReturnRetrieved \/ RerankRetrieved

SpecRerank == InitRerank /\ [][NextRerank]_vars

\* chatbot_async.py:349-352, 373-376: the text that stands for no evidence
NoInformation ==
  <<"Keine relevanten Informationen in der Dokumentensammlung gefunden.">>

\* the lists of two documents at most
DocumentLists ==
  {<<>>} \cup {<<d>> : d \in {"d1", "d2"}}
         \cup {<<d, f>> : d \in {"d1", "d2"}, f \in {"d1", "d2"}}

\* websocket_app.py:943-965: the evidence of a comparison, by party id; a
\* party may have no entry
DocumentDicts ==
  UNION {[ids -> DocumentLists] : ids \in SUBSET Range(all_parties)}

\* the compared parties, each once
ComparedParties ==
  LET pairs == {<<p, q>> : p \in Range(all_parties), q \in Range(all_parties)}
  IN  {<<>>} \cup {<<p>> : p \in Range(all_parties)}
             \cup {pair \in pairs : pair[1] # pair[2]}

\* utils.py:99-108  build_document_string_for_context
build_document_string_for_context(doc_num, doc) ==
  <<"ID", ":", " ">> \o decimal(doc_num) \o <<"\n", "- Inhalt: ", doc, "\n", "\n">>

\* chatbot_async.py:345-348: the documents of a list, numbered from 0
RECURSIVE document_strings(_)
document_strings(relevant_docs) ==
  IF relevant_docs = <<>> THEN <<>>
  ELSE document_strings(SubSeq(relevant_docs, 1, Len(relevant_docs) - 1))
         \o build_document_string_for_context(Len(relevant_docs) - 1,
                                              relevant_docs[Len(relevant_docs)])

\* chatbot_async.py:344-353  get_rag_context
get_rag_context(relevant_docs) ==
  IF document_strings(relevant_docs) = <<>> THEN NoInformation
  ELSE document_strings(relevant_docs)

\* chatbot_async.py:363-372: the documents of one party, numbered on from
\* doc_num
RECURSIVE party_documents(_, _, _)
party_documents(docs, party, doc_num) ==
  IF docs = <<>> THEN <<>>
  ELSE <<"- ID: ">> \o decimal(doc_num)
         \o <<"\n", "- Partei: ", party, "\n", "- Inhalt: ", docs[1], "\n", "\n">>
         \o party_documents(Tail(docs), party, doc_num + 1)

\* chatbot_async.py:361-372: the section of every party, its heading first
RECURSIVE party_sections(_, _, _)
party_sections(relevant_docs, relevant_parties, doc_num) ==
  IF relevant_parties = <<>> THEN <<>>
  ELSE LET party == relevant_parties[1]
       IN  <<"\n", "\n", "Informationen von ", party, ":", "\n">>
             \o party_documents(relevant_docs[party], party, doc_num)
             \o party_sections(relevant_docs, Tail(relevant_parties),
                               doc_num + Len(relevant_docs[party]))

\* chatbot_async.py:356-377  get_rag_comparison_context
get_rag_comparison_context(relevant_docs, relevant_parties) ==
  IF \E party \in Range(relevant_parties) : party \notin DOMAIN relevant_docs
  THEN Raised("KeyError")
  ELSE IF party_sections(relevant_docs, relevant_parties, 0) = <<>>
       THEN Returned(NoInformation)
       ELSE Returned(party_sections(relevant_docs, relevant_parties, 0))

\* chatbot_async.py:411: the context of a single party
RagContext ==
  /\ args.fn = "get_rag_context"
  /\ ret = NoRet
  /\ ret' = Returned(get_rag_context(args.relevant_docs))
  /\ UNCHANGED <<routerVars, tpc, body, chat_session, cls, todo, tasks, pre,
                 relevant_doc_dict, improved_rag_query_list, lock, events, turn_events,
                 cache, concurrent, connVars, args>>

\* chatbot_async.py:472: the context of a comparison
RagComparisonContext ==
  /\ args.fn = "get_rag_comparison_context"
  /\ ret = NoRet
  /\ ret' = get_rag_comparison_context(args.relevant_docs, args.relevant_parties)
  /\ UNCHANGED <<routerVars, tpc, body, chat_session, cls, todo, tasks, pre,
                 relevant_doc_dict, improved_rag_query_list, lock, events, turn_events,
                 cache, concurrent, connVars, args>>

InitContext ==
  \/ \E docs \in DocumentLists :
       CallOnly([fn |-> "get_rag_context", relevant_docs |-> docs])
  \/ \E dict \in DocumentDicts, parties \in ComparedParties :
       CallOnly([fn |-> "get_rag_comparison_context",
                 relevant_docs |-> dict, relevant_parties |-> parties])

NextContext == RagContext \/ RagComparisonContext

SpecContext == InitContext /\ [][NextContext]_vars


(***************************************************************************)
(* Properties of the router.                                               *)
(***************************************************************************)
SingleShot == req.mode \in {"answer", "structured"}

Streaming == req.mode = "stream"

CallEnded == rpc \in {"returned", "raised"}

Attempted(i) == \E j \in DOMAIN attempts : attempts[j].llm = i

FailedBefore(i, j) == \E h \in 1..(j - 1) : attempts[h].llm = i /\ ~attempts[h].ok

NoRepeatedAttempt ==
  \A h, j \in DOMAIN attempts : attempts[h].llm = attempts[j].llm => h = j

\* the candidates of the running call: the whole pool for a single-shot call,
\* the selected list for a streaming call
Candidates == IF Streaming THEN Range(llms) ELSE 1..Len(pool)

PrimaryCandidates == {i \in Candidates : ~pool[i].back_up_only}

BackupCandidates == {i \in Candidates : pool[i].back_up_only}

AllFailed(S) == \A i \in S : \E j \in DOMAIN attempts : attempts[j].llm = i /\ ~attempts[j].ok

\* C1: in a single-shot call the non-backup backends are invoked in
\* descending priority, none skipped and none twice; a failed attempt leaves
\* the backend's is_at_rate_limit true and the next candidate is tried; the
\* first successful attempt leaves its flag false, is the last attempt, and
\* its result is what the call returns; the call raises the exhaustion error
\* only when no candidate is left untried.
C1_SingleShotFailover ==
  SingleShot =>
    /\ NoRepeatedAttempt
    /\ \A j \in DOMAIN attempts :
         /\ ~pool[attempts[j].llm].back_up_only =>
              \A i \in PrimaryCandidates :
                pool[i].priority > pool[attempts[j].llm].priority => FailedBefore(i, j)
         /\ is_at_rate_limit[attempts[j].llm] = ~attempts[j].ok
         /\ attempts[j].ok =>
              /\ j = Len(attempts)
              /\ rpc = "returned"
              /\ result = [kind |-> "response", llm |-> attempts[j].llm]
    /\ (/\ attempts # <<>>
        /\ ~attempts[Len(attempts)].ok
        /\ \E i \in PrimaryCandidates : ~Attempted(i)) => rpc = "primary"
    /\ result.kind = "exhausted" => AllFailed(Candidates)

\* a single-shot call that returned the answer of its third candidate after
\* two failures of higher-priority primaries
C1_Witness ==
  /\ SingleShot
  /\ rpc = "returned"
  /\ Len(attempts) = 3
  /\ ~attempts[1].ok /\ ~attempts[2].ok /\ attempts[3].ok
  /\ \A j \in 1..3 : ~pool[attempts[j].llm].back_up_only
  /\ pool[attempts[1].llm].priority > pool[attempts[3].llm].priority

\* C2: when every candidate of a call (primary and backup) has failed, the
\* call ends with the exhaustion error raised, never with a normal value,
\* and no candidate was tried twice.
C2_ExhaustionRaised ==
  (CallEnded /\ AllFailed(Candidates) /\ \A j \in DOMAIN attempts : ~attempts[j].ok) =>
    /\ rpc = "raised"
    /\ result.kind = "exhausted"
    /\ NoRepeatedAttempt

\* C3: a back_up_only backend is invoked only after every primary candidate
\* of the call has been attempted and has failed.
C3_BackupOnlyAfterPrimaries ==
  \A j \in DOMAIN attempts :
    pool[attempts[j].llm].back_up_only =>
      \A i \in PrimaryCandidates : FailedBefore(i, j)

\* C4: when every primary candidate of a call fails, the status write
\* awrite_llm_status(True) is called exactly once, after the last primary
\* failure and before the first backup attempt; the backups are then all
\* attempted in descending priority until one answers, and the exhaustion
\* error is raised only after every backup failed; when a primary answers
\* the status write is not called.
C4_SignalOncePerExhaustedBatch ==
  /\ (\E j \in DOMAIN attempts : pool[attempts[j].llm].back_up_only) => signals = 1
  /\ signals >= 1 => AllFailed(PrimaryCandidates)
  /\ CallEnded =>
       IF AllFailed(PrimaryCandidates)
       THEN /\ signals = 1
            /\ \/ \E j \in DOMAIN attempts :
                    pool[attempts[j].llm].back_up_only /\ attempts[j].ok
               \/ AllFailed(BackupCandidates) /\ result.kind = "exhausted"
            /\ \A j \in DOMAIN attempts :
                 pool[attempts[j].llm].back_up_only =>
                   \A i \in BackupCandidates :
                     pool[i].priority > pool[attempts[j].llm].priority => FailedBefore(i, j)
       ELSE signals = 0

Eligible(i) == req.premium \/ ~pool[i].premium_only

MatchesPreferred(i) == req.size \in pool[i].sizes

\* C5: the candidate list of a streaming call holds every eligible backend
\* with a non-empty size set exactly once and nothing else (a premium_only
\* backend is eligible only for a premium caller); the backends whose sizes
\* contain the preferred size come first, the others behind them, and each
\* of the two parts is in descending priority.
C5_StreamCandidateList ==
  Streaming =>
    /\ Range(llms) = {i \in 1..Len(pool) : Eligible(i) /\ pool[i].sizes # {}}
    /\ \A a, b \in DOMAIN llms : llms[a] = llms[b] => a = b
    /\ \A a, b \in DOMAIN llms :
         a < b =>
           /\ MatchesPreferred(llms[b]) => MatchesPreferred(llms[a])
           /\ MatchesPreferred(llms[a]) = MatchesPreferred(llms[b]) =>
                pool[llms[a]].priority >= pool[llms[b]].priority

\* a candidate list in which a preferred-size backend stands before a
\* spill-over backend of higher priority
C5_Witness ==
  /\ Streaming
  /\ Len(llms) = 2
  /\ MatchesPreferred(llms[1])
  /\ ~MatchesPreferred(llms[2])
  /\ pool[llms[2]].priority > pool[llms[1]].priority

\* C6 as stated: a pool with a backend that matches the requested size and
\* whose is_at_rate_limit was false when the call started makes the call
\* succeed, and afterwards the flag of the candidate that answered is false.
C6_UnflaggedCandidateSucceeds ==
  (/\ Streaming
   /\ CallEnded
   /\ \E i \in 1..Len(pool) : MatchesPreferred(i) /\ ~flags0[i]) =>
    /\ result.kind = "stream"
    /\ ~is_at_rate_limit[result.llm]

\* C6 amended: a streaming call fails only when every candidate of its list
\* was invoked and raised; when it succeeds it returns the stream of the
\* first candidate that did not raise, whose flag is then false, the flags
\* of the candidates tried before it are true, and no other flag changed.
C6_FirstWorkingCandidate ==
  (Streaming /\ CallEnded) =>
    /\ result.kind # "stream" =>
         /\ AllFailed(Range(llms))
         /\ \A j \in DOMAIN attempts : ~attempts[j].ok
    /\ result.kind = "stream" =>
         /\ attempts # <<>>
         /\ attempts[Len(attempts)] = [llm |-> result.llm, ok |-> TRUE, tier |-> "stream"]
         /\ \A j \in DOMAIN attempts :
              /\ attempts[j].llm = llms[j]
              /\ j < Len(attempts) => ~attempts[j].ok
         /\ \A i \in 1..Len(pool) :
              is_at_rate_limit[i] =
                IF i = result.llm THEN FALSE
                ELSE IF Attempted(i) THEN TRUE
                ELSE flags0[i]

\* a streaming call that got its stream from the second candidate after the
\* first, which was not flagged, raised
C6_Witness ==
  /\ Streaming
  /\ rpc = "returned"
  /\ result.kind = "stream"
  /\ Len(attempts) = 2
  /\ ~flags0[attempts[1].llm]
  /\ is_at_rate_limit[attempts[1].llm]
  /\ flags0[attempts[2].llm]

(***************************************************************************)
(* Properties of the turn.                                                 *)
(***************************************************************************)
EventsOfType(log, t) == SelectSeq(log, LAMBDA e : e.type = t)

Completions(p) == EventsOfType(events[p], "party_response_complete")

Chunks(p) == EventsOfType(events[p], "party_response_chunk_ready")

TurnCompletions == EventsOfType(turn_events, "chat_response_complete")

IsChunkAt(p, i) == events[p][i].type = "party_response_chunk_ready"

\* the text a failed provider is to be shown, by error class
DegradedText(class) == IF class = "bad_request" THEN "cannot_answer" ELSE "generic_apology"

\* the fan-out timeout is the only thing that cancels a provider task
TimedOut ==
  /\ tpc = "done"
  /\ turn_events # <<>>
  /\ turn_events[Len(turn_events)] = ChatResponseCompleteDto(body.session_id, "error")

\* C7: a provider task that raised during the fan-out, whatever the class of
\* the exception, has left exactly one party_response_complete event for its
\* provider, of error status and with the degraded text of that class; and a
\* provider task is cancelled by nothing but the timeout of the fan-out, so a
\* raising sibling cancels none.
C7_RaisedTaskCompletesOnceWithError ==
  /\ \A p \in ProviderIds :
       tasks[p].raised # "none" =>
         /\ Len(Completions(p)) = 1
         /\ Completions(p)[1].status = "error"
         /\ Completions(p)[1].text = DegradedText(tasks[p].raised)
  /\ \A q \in ProviderIds : tasks[q].pc = "cancelled" => TimedOut

\* a provider answer has completed: its task returned without raising
Answered(p) == tasks[p].pc \in {"done", "cache_write"} /\ tasks[p].raised = "none"

\* C8: for a provider answer that has completed, generated or replayed, the
\* chunk events of the provider carry chunk_index 0, 1, ..., k in emission
\* order, exactly one of them has is_end set, it is the last chunk, and it
\* was emitted before the party_response_complete of the provider.
C8_ChunkIndexSequenceEndsOnce ==
  \A p \in ProviderIds :
    Answered(p) =>
      LET log == events[p]
          ch  == Chunks(p)
      IN  /\ \A i \in 1..Len(ch) : ch[i].chunk_index = i - 1
          /\ Cardinality({i \in 1..Len(ch) : ch[i].is_end}) = 1
          /\ ch[Len(ch)].is_end
          /\ \A i, j \in 1..Len(log) :
               (IsChunkAt(p, i) /\ log[j].type = "party_response_complete") => i < j

\* C9: every chunk event of a provider, in single-provider mode, in
\* comparison mode and in a replay from the cache, is preceded by a
\* sources_ready event of that provider.
C9_SourcesBeforeFirstChunk ==
  \A p \in ProviderIds :
    \A i \in 1..Len(events[p]) :
      IsChunkAt(p, i) => \E j \in 1..(i - 1) : events[p][j].type = "sources_ready"

\* one provider replays a cached answer and another streams a generated one,
\* and both have emitted a chunk
C9_Witness ==
  \E p, q \in ProviderIds :
    /\ tasks[p].replay /\ Len(Chunks(p)) > 0
    /\ ~tasks[q].replay /\ ~tasks[q].comparing /\ Len(Chunks(q)) > 0

\* C10: no exception leaves the handler of a turn, a turn emits at most one
\* chat_response_complete, and a turn that has ended has emitted exactly one.
C10_ExactlyOneTurnComplete ==
  /\ tpc # "crashed"
  /\ Len(TurnCompletions) <= 1
  /\ tpc = "done" => Len(TurnCompletions) = 1

FanoutTimedOut == \E p \in ProviderIds : tasks[p].pc = "cancelled"

TitleEvents == EventsOfType(turn_events, "quick_replies_and_title_ready")

\* C11: once the fan-out has timed out, the turn has ended with one
\* chat_response_complete of error status as its last event, no
\* quick_replies_and_title_ready and no success completion of the turn was
\* emitted, and what a provider had streamed is kept: every success
\* completion of a provider is still in its events and its message is still
\* in the history of the session.
C11_FanoutTimeoutEndsTurnWithError ==
  FanoutTimedOut =>
    /\ tpc = "done"
    /\ Len(TurnCompletions) = 1
    /\ turn_events[Len(turn_events)] = ChatResponseCompleteDto(body.session_id, "error")
    /\ TitleEvents = <<>>
    /\ \A p \in ProviderIds :
         \A i \in 1..Len(events[p]) :
           (events[p][i].type = "party_response_complete" /\ events[p][i].status = "success")
             => \E k \in 1..Len(chat_session.chat_history) :
                  chat_session.chat_history[k] = AssistantMessage(p, events[p][i].content)

\* the fan-out timed out after one provider had streamed its whole answer
\* while another was still at work
C11_Witness ==
  /\ FanoutTimedOut
  /\ \E p \in ProviderIds :
       /\ tasks[p].pc = "done"
       /\ Len(Chunks(p)) > 0
       /\ Len(Completions(p)) = 1
       /\ Completions(p)[1].status = "success"

\* C12: when the classification of a turn raised, whatever the class of the
\* exception, the turn is recovered: responding_parties_selected names the
\* neutral provider alone, the neutral provider has one
\* party_response_complete with the inability text, no provider task was
\* created, the turn has ended with one chat_response_complete of error
\* status, and the session is still registered.
C12_ClassificationFailureRecovered ==
  cls.raised # "none" =>
    /\ tpc = "done"
    /\ turn_events = <<RespondingPartiesDto(body.session_id, {WAHL_CHAT_PARTY}),
                       ChatResponseCompleteDto(body.session_id, "error")>>
    /\ Len(Completions(WAHL_CHAT_PARTY)) = 1
    /\ Completions(WAHL_CHAT_PARTY)[1].text = "cannot_answer"
    /\ \A p \in ProviderIds : tasks[p] = NoTask
    /\ chat_session.session_id = body.session_id

\* the step in which the title generation of a turn failed: the handler
\* leaves the title stage without a quick_replies_and_title_ready event
TitleGenerationFails == tpc = "title" /\ tpc' # "title" /\ TitleEvents' = <<>>

\* C13: when the generation of the title and quick replies fails, whatever
\* the class of the exception, no quick_replies_and_title_ready is emitted,
\* the last quick replies of the session are left as they were, and the turn
\* still ends with a chat_response_complete of success status.
C13_TitleFailureDoesNotFailTurn ==
  [][TitleGenerationFails =>
       /\ chat_session'.last_quick_replies = chat_session.last_quick_replies
       /\ tpc' = "done"
       /\ turn_events' = Append(turn_events,
                                ChatResponseCompleteDto(chat_session.session_id, "success"))]_vars

\* C14: a chat_answer_request whose payload fails validation produces one
\* chat_response_complete of error status and nothing else: the session, the
\* provider events, the coroutines and the cache are as they were.
C14_InvalidPayloadOnlyCompletesWithError ==
  [][(tpc = "idle" /\ tpc' # "idle" /\ validate(body') # "ok") =>
       /\ tpc' = "done"
       /\ turn_events' = <<ChatResponseCompleteDto("none", "error")>>
       /\ UNCHANGED <<chat_session, events, tasks, pre, cache>>]_vars

\* a turn in which nothing failed and no deadline elapsed has ended
TurnEndedWithoutFailure ==
  /\ tpc = "done"
  /\ Len(TurnCompletions) = 1
  /\ TurnCompletions[1].status = "success"
  /\ \A p \in ProviderIds : tasks[p].raised = "none"

\* the events of a provider id; an id outside the directory has none
ProviderEvents(id) == IF id \in ProviderIds THEN events[id] ELSE <<>>

\* C15: in a turn in which nothing fails and no deadline elapses the events
\* of the turn are one responding_parties_selected, one
\* quick_replies_and_title_ready and one chat_response_complete of success
\* status, in that order and with the session id of the turn; every provider
\* id listed in responding_parties_selected has exactly one sources_ready as
\* its first event, then its chunks, then exactly one party_response_complete
\* of success status as its last; provider events come after
\* responding_parties_selected and before the title; and a classification
\* that names one provider lists exactly that provider.
C15_EventsOfAnUndisturbedTurn ==
  /\ (\E p \in ProviderIds : events[p] # <<>>) =>
       (turn_events # <<>> /\ turn_events[1].type = "responding_parties_selected")
  /\ TitleEvents # <<>> => \A p \in ProviderIds : ~Running(p)
  /\ TurnEndedWithoutFailure =>
       /\ Len(turn_events) = 3
       /\ turn_events[1].type = "responding_parties_selected"
       /\ turn_events[2] = QuickRepliesAndTitleDto(chat_session.session_id)
       /\ turn_events[3] = ChatResponseCompleteDto(chat_session.session_id, "success")
       /\ turn_events[1].session_id = chat_session.session_id
       /\ \A id \in turn_events[1].party_ids :
            LET log == ProviderEvents(id)
            IN  /\ Len(log) >= 2
                /\ log[1].type = "sources_ready"
                /\ log[Len(log)].type = "party_response_complete"
                /\ log[Len(log)].status = "success"
                /\ \A i \in 2..(Len(log) - 1) : log[i].type = "party_response_chunk_ready"
       /\ (Cardinality(cls.party_id_list) = 1 /\ ~cls.is_comparing_question) =>
            turn_events[1].party_ids = cls.party_id_list

\* the classification found two or more providers and a comparing question
ComparisonClassified ==
  cls.is_comparing_question /\ Cardinality(cls.party_id_list) >= 2

\* C16: when the classification yields two or more providers and a
\* comparing question, responding_parties_selected names the neutral provider
\* alone, no other provider emits anything, and the neutral provider emits
\* nothing before the query rewriting and the retrieval of every compared
\* provider have finished.
C16_ComparisonAnsweredByNeutralProvider ==
  ComparisonClassified =>
    /\ turn_events # <<>>
    /\ turn_events[1] = RespondingPartiesDto(body.session_id, {WAHL_CHAT_PARTY})
    /\ \A p \in ProviderIds \ {WAHL_CHAT_PARTY} : events[p] = <<>>
    /\ events[WAHL_CHAT_PARTY] # <<>> =>
         \A p \in cls.party_id_list \cap ProviderIds :
           /\ pre[p] = "done"
           /\ p \in relevant_doc_dict

\* the lookup of the task of p returned no cached answer
LookupFoundNone(p) == tasks[p].found = 0

\* the lookup of the task of p returned one cached answer or more
LookupFoundSome(p) == tasks[p].found >= 1

C18_CachedAnswerReplayed ==
  \A p \in ProviderIds :
    LookupFoundSome(p) =>
      /\ tasks[p].replay
      /\ tasks[p].raised = "none"
      /\ tasks[p].fetched = 0
      /\ tasks[p].pc \in {"replay_sources", "replay_chunks", "done", "cancelled"}
      /\ Len(cache[p]) = tasks[p].found
      /\ \E k \in 1..Len(cache[p]) : cache[p][k] = tasks[p].full_response
      /\ tasks[p].pc = "done" =>
           events[p] = <<SourcesDto>>
                       \o chunk_events(tasks[p].full_response, 0)
                       \o <<PartyResponseCompleteDto("success", "full_content",
                                                     tasks[p].full_response)>>

\* a cached answer of two chunks has been replayed to the end
C18_Witness ==
  \E p \in ProviderIds :
    /\ LookupFoundSome(p)
    /\ tasks[p].pc = "done"
    /\ Len(Chunks(p)) = 2
    /\ Len(Completions(p)) = 1

\* the cache is consulted for the task of p
Consulted(p) == tasks[p].cache_key # NoneKey

\* C20: for every provider task the cache is consulted exactly when the user
\* message is a proposed question or the session is cacheable; the key of a
\* proposed question is the text of the user message that matched it, the
\* key otherwise is the fingerprint of the history up to and including the
\* user message of the turn; a task of a comparison is never consulted; and
\* without a key neither the lookup nor the store is called.
C20_CacheKeySelection ==
  \A p \in ProviderIds :
    tasks[p].pc # "none" =>
      /\ Consulted(p) <=> (tasks[p].is_proposed_question \/ tasks[p].is_cacheable_chat)
      /\ tasks[p].is_proposed_question =>
           tasks[p].cache_key = [kind |-> "text", text |-> body.user_message, history |-> <<>>]
      /\ (Consulted(p) /\ ~tasks[p].is_proposed_question) =>
           \E n \in 1..Len(chat_session.chat_history) :
             /\ chat_session.chat_history[n].content = body.user_message
             /\ tasks[p].cache_key =
                  get_chat_history_hash_key(
                    build_chat_history_string(SubSeq(chat_session.chat_history, 1, n)))
      /\ tasks[p].comparing => ~Consulted(p)
      /\ ~Consulted(p) =>
           (tasks[p].found = -1 /\ tasks[p].pc \notin {"cache_lookup", "cache_write"})

\* C19: whatever the interleaving of provider tasks of concurrent turns that
\* use the same (provider, key), the entries stored under the key never
\* exceed cached_answer_limit.
C19_CacheEntriesBounded ==
  \A p \in ProviderIds : Len(cache[p]) <= cached_answer_limit


(***************************************************************************)
(* Properties of the sessions of a connection.                             *)
(***************************************************************************)
\* C21: for every session id, over any sequence of inbound events, once the
\* cacheable flag of the session registered under the id is false it is
\* never true again
C21_CacheableNeverTrueAgain ==
  [][\A k \in SessionIds :
       (registered(k) # <<>> /\ ~registered(k)[1].is_cacheable)
         => (registered(k)' # <<>> => ~registered(k)[1].is_cacheable')]_vars

\* a user message was accepted: its payload is valid and names a registered
\* session
MessageAccepted == tpc = "idle" /\ tpc' = "get_parties"

\* C22: on an accepted user message whose text equals the content of the
\* last entry of the history nothing is appended, whatever the number of
\* times it is submitted; in every other case exactly one user entry is
\* appended at the tail
C22_ResubmittedMessageNotAppended ==
  [][MessageAccepted =>
       LET h  == registered(body'.session_id)[1].chat_history
           h2 == chat_session'.chat_history
       IN  IF Len(h) > 0 /\ h[Len(h)].content = body'.user_message
           THEN h2 = h
           ELSE h2 = Append(h, UserMessage(body'.user_message))]_vars

\* the session that init_chat_session registered with the title "u", an
\* empty history and the cacheable flag set has lost the flag in a turn, and
\* the same message has been accepted again: the history holds one copy
C22_Witness ==
  /\ tpc = "get_parties"
  /\ chat_session.title = "u"
  /\ ~chat_session.is_cacheable
  /\ chat_session.chat_history = <<UserMessage(body.user_message)>>

\* a user message with a valid payload names an id under which no session
\* is registered
UnknownSession ==
  /\ tpc = "idle" /\ tpc' # "idle"
  /\ validate(body') = "ok"
  /\ registered(body'.session_id) = <<>>

\* C24: a user message that names an id under which no session is
\* registered (never initialised, or dropped by a disconnect) produces
\* exactly one turn_complete event, with error status, registers no session
\* and starts no classification, retrieval, generation or cache call
C24_UnknownSessionRejected ==
  [][UnknownSession =>
       /\ turn_events' = Append(turn_events, ChatResponseCompleteDto(body'.session_id, "error"))
       /\ tpc' = "done"
       /\ \A k \in SessionIds : registered(k)' = registered(k)
       /\ UNCHANGED <<cls, todo, tasks, pre, events, cache, relevant_doc_dict,
                      improved_rag_query_list, lock>>]_vars

\* a session was initialised and dropped, and a message that names it was
\* then answered by one error completion
C24_Witness ==
  /\ tpc = "done"
  /\ validate(body) = "ok"
  /\ body.session_id \in SessionIds
  /\ registered(body.session_id) = <<>>
  /\ Len(conn_events) = 1
  /\ inbound = 3
  /\ cls = NoCls
  /\ turn_events = <<ChatResponseCompleteDto(body.session_id, "error")>>

\* C25: every session_init yields exactly one session_initialized event;
\* for a valid payload it has success status and the id of the payload, and
\* the session is registered under the id with the supplied history, title,
\* response size, last quick replies and cacheable flag; for any other
\* payload it has error status and no id, and the registry is unchanged
C25_OneInitializedEventPerInit ==
  [][\A b \in InitBodies :
       init_chat_session(b) =>
         /\ Len(conn_events') = Len(conn_events) + 1
         /\ IF validate_init(b) = "ok"
            THEN /\ conn_events'[Len(conn_events')] =
                      ChatSessionInitializedDto(b.session_id, "success")
                 /\ registered(b.session_id)' =
                      <<[session_id |-> b.session_id, chat_history |-> b.chat_history,
                         title |-> b.current_title,
                         chat_response_llm_size |-> InitChatSessionDto(b).chat_response_llm_size,
                         is_cacheable |-> InitChatSessionDto(b).is_cacheable,
                         last_quick_replies |-> InitChatSessionDto(b).last_quick_replies]>>
            ELSE /\ conn_events'[Len(conn_events')] =
                      ChatSessionInitializedDto("none", "error")
                 /\ \A k \in SessionIds : registered(k)' = registered(k)]_vars

\* the stream of provider p fails in this step, while it is being drained
DrainFails(p) == TaskAt(p, "drain") /\ tasks'[p].raised # "none"

\* C27: when the stream of a provider task fails while it is drained, no
\* other backend is tried and no backend is flagged (the task ends and the
\* router is untouched), the events already emitted stay, and the task ends
\* with one party_response_complete of error status.
C27_DrainFailureEndsTaskWithError ==
  [][\A p \in ProviderIds :
       DrainFails(p) =>
         /\ tasks'[p].pc = "done"
         /\ UNCHANGED routerVars
         /\ Len(events'[p]) = Len(events[p]) + 1
         /\ SubSeq(events'[p], 1, Len(events[p])) = events[p]
         /\ events'[p][Len(events'[p])].type = "party_response_complete"
         /\ events'[p][Len(events'[p])].status = "error"]_vars

\* process_party of p is inside one of its two critical sections
InSection(p) == pre[p] \in {"append_query", "unlock_query", "store_docs", "unlock_docs"}

\* C31: in the pre-pass of a comparison, whatever the interleaving of the
\* process_party tasks, a write to the shared list or to the shared map is
\* made by the task that holds the lock, at most one task is inside a
\* critical section, and when the pre-pass ends without error the map has
\* one entry and the list one query for every compared provider.
C31_PrepassWritesUnderLock ==
  [][/\ (tpc = "prepass" /\ improved_rag_query_list' # improved_rag_query_list) =>
          /\ lock \in ProviderIds /\ InSection(lock) /\ lock' = lock
          /\ improved_rag_query_list' = Append(improved_rag_query_list, lock)
     /\ (tpc = "prepass" /\ relevant_doc_dict' # relevant_doc_dict) =>
          /\ lock \in ProviderIds /\ InSection(lock) /\ lock' = lock
          /\ relevant_doc_dict' = relevant_doc_dict \cup {lock}
     /\ \A p \in ProviderIds, q \in ProviderIds :
          (InSection(p)' /\ InSection(q)') => (p = q /\ lock' = p)
     /\ (tpc = "prepass" /\ tpc' = "fanout") =>
          /\ relevant_doc_dict = Range(todo)
          /\ Len(improved_rag_query_list) = Len(todo)
          /\ Range(improved_rag_query_list) = Range(todo)]_vars

\* a pre-pass of two providers has ended; the provider that comes second
\* in the directory wrote its query first
C31_Witness ==
  /\ tpc = "fanout"
  /\ tasks[WAHL_CHAT_PARTY].comparing
  /\ relevant_doc_dict = Range(all_parties)
  /\ improved_rag_query_list = <<all_parties[2], all_parties[1]>>

\* the turn has started and has not emitted its chat_response_complete
InFlight == tpc \notin {"idle", "done", "crashed"}

\* C32: at most one turn of a session is in flight: another user message
\* for the session does not append to the history, update the cacheable
\* flag or have a provider answer while the turn that came first has not
\* emitted its turn_complete.
C32_OneTurnInFlight ==
  [][concurrent' # concurrent => ~InFlight]_vars

\* the deadline of the pre-pass has elapsed
PrepassTimedOut == \E p \in ProviderIds : pre[p] = "cancelled"

\* C33: the pre-pass of a comparison has a deadline of its own that is
\* strictly shorter than the deadline of the fan-out; when it elapses the
\* turn ends with one error chat_response_complete and no provider task is
\* started: no sources, chunk or completion event of a provider is emitted.
C33_PrepassDeadlineShorterAndFinal ==
  /\ prepass_timeout < fanout_timeout
  /\ PrepassTimedOut =>
       /\ tpc = "done"
       /\ Len(TurnCompletions) = 1
       /\ turn_events[Len(turn_events)] = ChatResponseCompleteDto(body.session_id, "error")
       /\ TitleEvents = <<>>
       /\ \A p \in ProviderIds : events[p] = <<>> /\ tasks[p] = NoTask

\* C35: a provider task emits at most one party_response_complete in a
\* turn; a success completion of a provider is never followed by an error
\* completion of the same provider, also when a step after the success
\* emission, such as the cache write, fails.
C35_AtMostOneCompletionPerProvider ==
  \A p \in ProviderIds : Len(Completions(p)) <= 1

\* C36: the chat_response_complete of a turn is its last event: once it is
\* emitted, by success, by error or at a deadline, no event of a provider
\* and no title event of the turn is emitted, and no provider task, the
\* tasks abandoned at the deadline included, appends to the history.
C36_TurnCompleteIsLast ==
  [][/\ TurnCompletions # <<>> =>
          /\ UNCHANGED <<events, turn_events>>
          /\ chat_session'.chat_history = chat_session.chat_history
     /\ TurnCompletions' # <<>> =>
          /\ Len(TurnCompletions') = 1
          /\ turn_events'[Len(turn_events')].type = "chat_response_complete"]_vars

\* the deadline of the fan-out has ended a turn whose provider was in the
\* middle of its stream
C36_Witness ==
  /\ tpc = "done"
  /\ turn_events[Len(turn_events)] = ChatResponseCompleteDto(body.session_id, "error")
  /\ \E p \in ProviderIds :
       /\ tasks[p].pc = "cancelled"
       /\ Chunks(p) # <<>>
       /\ Completions(p) = <<>>

\* the chat_answer_request found its session and went on past the session
\* access
Accepted == validate(body) = "ok" /\ body.session_id = chat_session.session_id

\* the messages of the history behind its last user message, which is the
\* user message of the turn
TurnAnswers ==
  LET h == chat_session.chat_history
      users == {k \in 1..Len(h) : h[k].role = "user"}
      last == CHOOSE k \in users : \A m \in users : m <= k
  IN  IF users = {} THEN <<>> ELSE SubSeq(h, last + 1, Len(h))

AnswersOf(p) == SelectSeq(TurnAnswers, LAMBDA m : m.party_id = p)

SuccessCompletions(p) == SelectSeq(Completions(p), LAMBDA e : e.status = "success")

\* C37: after a turn the history holds, behind the user message of the
\* turn, one message for every provider that emitted a success completion
\* in the turn, with the id of the provider and the content of the
\* completion, and no message for a provider whose task failed or was
\* abandoned.
C37_HistoryMatchesSuccessCompletions ==
  (tpc \in {"done", "crashed"} /\ Accepted) =>
    \A p \in ProviderIds :
      /\ SuccessCompletions(p) # <<>> =>
           AnswersOf(p) = <<AssistantMessage(p, SuccessCompletions(p)[1].content)>>
      /\ (tasks[p].raised # "none" \/ tasks[p].pc = "cancelled") => AnswersOf(p) = <<>>
      /\ SuccessCompletions(p) = <<>> => AnswersOf(p) = <<>>

\* the provider ids of the responding_parties_selected events of the turn
ListedProviders ==
  UNION {turn_events[k].party_ids :
           k \in {n \in 1..Len(turn_events) :
                    turn_events[n].type = "responding_parties_selected"}}

\* the providers that a sources_ready, party_response_chunk_ready or
\* party_response_complete event of the turn carries
CarriedProviders == {p \in ProviderIds : events[p] # <<>>}

\* fetch_and_emit_party_response was created for the provider
Launched(p) == p \in ProviderIds /\ tasks[p].pc # "none"

\* C38: a provider that an event of sources, of a chunk or of a completion
\* carries has been listed by the responding_parties_selected event of the
\* turn before, and when the fan-out begins every listed provider id has a
\* provider task.
C38_ListedProvidersAreTheAnsweringOnes ==
  [][/\ CarriedProviders' \subseteq ListedProviders'
     /\ (tpc # "fanout" /\ tpc' = "fanout") =>
          \A p \in ListedProviders' : Launched(p)']_vars

\* the contents of the chunk events of a provider put together in the order
\* of chunk_index
RECURSIVE ChunkText(_, _)
ChunkText(chunks, k) ==
  LET at == {n \in 1..Len(chunks) : chunks[n].chunk_index = k}
  IN  IF at = {} THEN <<>>
      ELSE chunks[CHOOSE n \in at : TRUE].content \o ChunkText(chunks, k + 1)

\* C39: for a provider whose answer completed with success, generated or
\* replayed, every chunk event carries MAX_RESPONSE_CHUNK_LENGTH characters
\* at most, and the chunk contents in the order of chunk_index make up the
\* content of the completion and of the message in the history.
C39_ChunksMakeUpTheAnswer ==
  \A p \in ProviderIds :
    SuccessCompletions(p) # <<>> =>
      /\ \A n \in 1..Len(Chunks(p)) :
            Len(Chunks(p)[n].content) <= MAX_RESPONSE_CHUNK_LENGTH
      /\ ChunkText(Chunks(p), 0) = SuccessCompletions(p)[1].content
      /\ \A n \in 1..Len(AnswersOf(p)) :
            AnswersOf(p)[n].content = ChunkText(Chunks(p), 0)


(***************************************************************************)
(* The order of the attempts of the router.                                *)
(***************************************************************************)
\* the backends a call may invoke, by the static fields and the request
StaticCandidates ==
  IF Streaming
  THEN {i \in 1..Len(pool) : Eligible(i) /\ pool[i].sizes # {}}
  ELSE 1..Len(pool)

\* the part of the order a backend belongs to: a streaming call puts the
\* backends of the preferred size first, a single-shot call the backends
\* that are not back_up_only
Tier(i) ==
  IF Streaming THEN (IF MatchesPreferred(i) THEN 0 ELSE 1)
  ELSE (IF pool[i].back_up_only THEN 1 ELSE 0)

\* i stands before j: by part, then by descending priority, then by the
\* position in the pool
Precedes(i, j) ==
  \/ Tier(i) < Tier(j)
  \/ /\ Tier(i) = Tier(j)
     /\ \/ pool[i].priority > pool[j].priority
        \/ pool[i].priority = pool[j].priority /\ i < j

\* C34: the order of the attempts of a call is fixed by the static fields
\* of the descriptors and the request: the backends invoked before a
\* backend are exactly those that stand before it by sizes, back_up_only,
\* priority and position, whatever the is_at_rate_limit flags are when the
\* call starts; a flagged backend is tried at its place.
C34_AttemptOrderIgnoresFlags ==
  rpc # "idle" =>
    \A j \in DOMAIN attempts :
      /\ attempts[j].llm \in StaticCandidates
      /\ \A i \in StaticCandidates :
           Precedes(i, attempts[j].llm) <=> \E h \in 1..(j - 1) : attempts[h].llm = i

\* a call that started with its first and its second candidate flagged and
\* a third one not flagged has tried them in this order
C34_Witness ==
  /\ rpc # "idle"
  /\ Len(attempts) = 3
  /\ flags0[attempts[1].llm] /\ flags0[attempts[2].llm] /\ ~flags0[attempts[3].llm]


(***************************************************************************)
(* Properties of the functions of classification and retrieval.            *)
(***************************************************************************)
\* the ids the classifier named, the neutral provider left out when it is
\* named with another
ResolvedIds ==
  LET named == Range(args.party_id_list)
  IN  IF Cardinality(named) >= 2 THEN named \ {WAHL_CHAT_PARTY} ELSE named

C26_FingerprintTellsHistoriesApart ==
  (args.fn = "get_chat_history_hash_key" /\ ret.status = "returned") =>
    (ret.value[1] = ret.value[2] <=> args.first = args.second)

\* the re-ranking strategy was run on TopK documents or more
Reranking ==
  /\ args.fn = "identify_relevant_docs_with_llm_based_reranking"
  /\ ret # NoRet
  /\ Len(args.relevant_docs) >= TopK

\* the output of the re-ranking model holds an index that names no document
Malformed(response) ==
  \/ response.kind = "no_attribute"
  \/ /\ response.kind = "RerankingOutput"
     /\ \E k \in 1..Len(response.reranked_doc_indices) :
          response.reranked_doc_indices[k] \notin 0..(Len(args.relevant_docs) - 1)

\* C28: when the re-ranking call raises or its output is malformed, the
\* first five documents of the similarity order are returned and nothing
\* is raised
C28_FallbackToSimilarityOrder ==
  (Reranking /\ (args.response.kind = "raises" \/ Malformed(args.response))) =>
    ret = Returned(first_k(args.relevant_docs, TopK))

\* C29: five retrieved documents or more give exactly five documents,
\* pairwise distinct and all retrieved, whatever indices the re-ranking
\* model returns, in its order when its first five indices name five
\* documents; fewer than five retrieved documents are returned unchanged
C29_ExactlyFiveDistinctDocuments ==
  (args.fn = "identify_relevant_docs_with_llm_based_reranking" /\ ret.status = "returned") =>
    IF Len(args.relevant_docs) >= TopK
    THEN /\ Len(ret.value) = TopK
         /\ \A i \in 1..Len(ret.value), j \in 1..Len(ret.value) :
              ret.value[i] = ret.value[j] => i = j
         /\ Range(ret.value) \subseteq Range(args.relevant_docs)
         /\ (/\ args.response.kind = "RerankingOutput"
             /\ ~Malformed(args.response)
             /\ Len(args.response.reranked_doc_indices) >= TopK) =>
               \A k \in 1..TopK :
                 ret.value[k] = args.relevant_docs[args.response.reranked_doc_indices[k] + 1]
    ELSE ret.value = args.relevant_docs

\* the call of a context builder has ended and there was no evidence: the
\* list is empty, or no compared party has a document in the dictionary
NoEvidence ==
  /\ ret # NoRet
  /\ \/ args.fn = "get_rag_context" /\ args.relevant_docs = <<>>
     \/ /\ args.fn = "get_rag_comparison_context"
        /\ \A party \in Range(args.relevant_parties) :
             party \in DOMAIN args.relevant_docs => args.relevant_docs[party] = <<>>

\* C30: when there is no evidence, for a single party or for a comparison,
\* a compared party without entry in the dictionary included, the context
\* is the fixed text for no information and nothing is raised
C30_NoEvidenceGivesMarker ==
  NoEvidence => ret = Returned(NoInformation)
====
